---- MODULE Spec2Model ----
\* Participation pipeline of discord-llm-chatbot: ParticipationPolicy.should_reply,
\* ConversationMemory, ConversationBatcher, MentionsQueue and the parts of
\* MessageRouter.handle_message / bot_app loops that drive them.
\* Time is an integer number of seconds; percentages stand for floats in [0,1].
EXTENDS Integers, Sequences, FiniteSets, TLC

\* ---------------------------------------------------------------------------
\* Bounds of the model
\* ---------------------------------------------------------------------------
\* number of clock advances the policy specification explores
PMaxTick == 1
\* records the policy specification's environment appends per channel
PMaxStore == 3
\* replies the policy specification's environment records per channel
PMaxReplies == 2
\* messages the platform delivers in the router specification
RMaxMessages == 3
\* number of clock advances the router specification explores
RMaxTick == 3
\* message ids the batcher specification adds
BMaxId == 3
\* longest buffer the batcher specification lets an add extend
BMaxLen == 4
\* the small max_buffer_per_channel the batcher specification also builds
BSmallBuffer == 2
\* a drain limit smaller than the buffers the batcher runs reach
BSmallLimit == 2
\* mentions the platform delivers in the mentions-loop specification
MMaxMessages == 5
\* longest history the prompt-budget specification assembles
AMaxHistory == 3
\* most lore entries the lore specification loads
LMaxEntries == 3
\* conversation_mode.max_messages of the router specification's configuration
CmMaxMessages == 1

\* ---------------------------------------------------------------------------
\* Program constants and configuration values
\* ---------------------------------------------------------------------------
CooldownMinMessages == 3
CooldownMinSeconds == 30
WindowSeconds == 120
MaxResponses == 2
PruneSeconds == 60
NoneT == 0 - 1
EpochT == 0 - 1000000

StoreMaxLen == 200
MaxBuffer == 200
CmWindowSeconds == 120
BatchLimit == 10
\* truncate_user_min of _assemble_and_budget
TruncateUserMin == 8
\* chars_per_token of TokenizerService
CharsPerToken == 4
\* length of the ellipsis truncate_text_tokens appends
EllipsisLen == 3
MaxPerChannel == 100

Channels == {"c1", "c2"}
Authors == {"u1", "b1"}
BotAuthors == {"b1", "b2", "self"}
Chances == {0, 50, 100}
Rolls == {0, 49, 50, 99}
\* the instants the clock visits, in seconds
Times == <<0, 10, 70, 130, 190, 250>>

\* ---------------------------------------------------------------------------
\* Message contents as character sequences
\* ---------------------------------------------------------------------------
AliasAi == <<"a", "i">>
Hello == <<"h", "e", "l", "l", "o">>
MainEvent == <<"m", "a", "i", "n", " ", "e", "v", "e", "n", "t">>
HeyAiHelp == <<"h", "e", "y", " ", "A", "I", ",", " ", "h", "e", "l", "p">>
AiChan == <<"a", "i", "-", "c", "h", "a", "n">>
Contents == {Hello, MainEvent, HeyAiHelp, AiChan}

LowerChar(ch) ==
    CASE ch = "A" -> "a"
      [] ch = "I" -> "i"
      [] OTHER -> ch

Lower(s) == [i \in 1..Len(s) |-> LowerChar(s[i])]

WordChars == {"a", "b", "c", "d", "e", "h", "i", "l", "m", "n", "o", "p", "r", "s", "t", "v", "y", "A", "I", "_"}
SpaceChars == {" "}
StrictAfter == {")", "]", "}", " ", ",", ".", "!", "?", ":", ";"}
LooseAfter == {"-", "_", ":", ",", ".", ";", "!", "?", ")", "]", "}"}
Quotes == {"'"}
Suffixes == {<<"s">>, <<"d">>, <<"m">>, <<"r", "e">>, <<"l", "l">>}

\* s[i..] starts with t
StartsAt(s, i, t) ==
    /\ i + Len(t) - 1 <= Len(s)
    /\ \A k \in 1..Len(t) : s[i + k - 1] = t[k]

\* lookahead (?:$|\s|[)\]} ,.!?:;]) at position j (the index of the next character)
StrictEndAt(s, j) == j > Len(s) \/ s[j] \in SpaceChars \/ s[j] \in StrictAfter

\* alias at i, (?<![\w-]) before, optional possessive/contraction then an end after
StrictAt(s, i, a) ==
    /\ StartsAt(s, i, a)
    /\ (i = 1 \/ s[i - 1] \notin (WordChars \cup {"-"}))
    /\ \/ StrictEndAt(s, i + Len(a))
       \/ /\ i + Len(a) <= Len(s)
          /\ s[i + Len(a)] \in Quotes
          /\ \E sf \in Suffixes :
                /\ StartsAt(s, i + Len(a) + 1, sf)
                /\ StrictEndAt(s, i + Len(a) + 1 + Len(sf))

\* (?:(?<=\s)|^) alias (?=$|[\s\-_:,.;!?)\]}])
LooseAt(s, i, a) ==
    /\ StartsAt(s, i, a)
    /\ (i = 1 \/ s[i - 1] \in SpaceChars)
    /\ \/ i + Len(a) > Len(s)
       \/ s[i + Len(a)] \in SpaceChars
       \/ s[i + Len(a)] \in LooseAfter

\* `alias in content_lower` of the router
Contains(s, a) == \E i \in 1..Len(s) : StartsAt(s, i, a)

VARIABLES
    cfg,                \* configuration the ParticipationPolicy was built from
    tick,               \* index into Times of the current instant
    store,              \* ConversationMemory.store: channel -> sequence of records
    last_reply,         \* ConversationMemory.last_reply: channel -> time or NoneT
    replies_timestamps, \* ConversationMemory.replies_timestamps: channel -> sequence of times
    call,               \* the should_reply call in progress: its event, inputs and decision
    conv_until,         \* ConversationMemory.conv_until: channel -> time or NoneT
    conv_budget,        \* ConversationMemory.conv_budget: channel -> budget or NoneT
    responded_to,       \* ConversationMemory.responded_to: channel -> set of message ids
    buffers,            \* ConversationBatcher._buffers: channel -> sequence of events
    seen_sets,          \* ConversationBatcher._seen_sets: channel -> set of message ids
    mq,                 \* MentionsQueue._q: channel -> sequence of pending mentions
    pending,            \* handle_message calls that decided to reply and await the backend
    batch_loop,         \* process_batches_loop: its position and local variables
    mention_loop,       \* process_mentions_loop: its position and local variables
    prev_conv_active,   \* prev_conv_active of bot_app: channel -> BOOLEAN
    next_id,            \* number of the next message the platform delivers
    handled,            \* what handle_message did with the last message it was given
    last_sent,          \* history: the last reply sent and the channel's state at the send
    op,                 \* the call of a helper in progress: its inputs and its result
    on_replied_log,     \* history: channel -> times at which on_replied ran
    window_log          \* history: channel -> budget and replies of the current window

memVars == <<store, last_reply, replies_timestamps, conv_until, conv_budget, responded_to>>
routerVars ==
    <<conv_until, conv_budget, responded_to, buffers, seen_sets, mq, pending, batch_loop,
      mention_loop,
      prev_conv_active, next_id, handled, last_sent, op, on_replied_log, window_log>>
vars == <<cfg, tick, store, last_reply, replies_timestamps, call, routerVars>>
\* the policy, its memory and the should_reply call
coreVars == <<cfg, tick, store, last_reply, replies_timestamps, call>>
\* the router variables other than the batcher's and the helper call
loopVars ==
    <<conv_until, conv_budget, responded_to, mq, pending, batch_loop, mention_loop,
      prev_conv_active, next_id, handled, last_sent, on_replied_log, window_log>>

now == Times[tick]

\* ---------------------------------------------------------------------------
\* ConversationMemory
\* ---------------------------------------------------------------------------
RECURSIVE PruneHead(_, _)
\* while q and q[0] < cutoff: q.popleft()
PruneHead(q, cutoff) ==
    IF q /= <<>> /\ Head(q) < cutoff THEN PruneHead(Tail(q), cutoff) ELSE q

\* deque(maxlen=n).append(x)
AppendBounded(q, x, n) ==
    IF Len(q) >= n THEN Append(Tail(q), x) ELSE Append(q, x)

\* ConversationMemory.record: the channel's store after the append
Record(st, ev) == AppendBounded(st, ev, StoreMaxLen)

\* ConversationMemory.on_replied / record_response_only: the reply deque after
\* the append and the trailing-minute pruning
PushReply(q, t) == PruneHead(Append(q, t), t - PruneSeconds)

\* ConversationMemory.responses_in_window: the deque after its pruning; the
\* method returns its length
ResponsesInWindow(q, window_seconds, t) == PruneHead(q, t - window_seconds)

\* ConversationMemory.last_reply_info
LastReplyInfo(ch) == last_reply[ch]

RECURSIVE CountTrailingAfter(_, _)
\* the reversed scan of messages_since_last_reply: stops at the first record
\* not created after `last`
CountTrailingAfter(st, last) ==
    IF st = <<>> THEN 0
    ELSE LET e == st[Len(st)]
         IN  IF e.created_at > last
             THEN (IF e.is_bot THEN 0 ELSE 1)
                  + CountTrailingAfter(SubSeq(st, 1, Len(st) - 1), last)
             ELSE 0

\* ConversationMemory.messages_since_last_reply
MessagesSinceLastReply(st, last) ==
    IF last = NoneT
    THEN Cardinality({i \in 1..Len(st) : ~st[i].is_bot})
    ELSE CountTrailingAfter(st, last)

\* ---------------------------------------------------------------------------
\* ParticipationPolicy
\* ---------------------------------------------------------------------------
\* ParticipationPolicy.name_match
NameMatch(c, content) ==
    IF ~c.respond_to_name \/ content = <<>> THEN FALSE
    ELSE LET s == Lower(content)
         IN  \E a \in c.aliases : \E i \in 1..Len(s) :
                IF c.name_matching_mode = "strict" THEN StrictAt(s, i, a)
                ELSE LooseAt(s, i, a)

\* the bot-message gate of should_reply: the deny reason, or "pass"
BotGate(c, ev) ==
    IF ~ev.is_bot THEN "pass"
    ELSE IF ~c.respond_to_bots THEN "ignore-bot"
    ELSE IF ev.author_id \in c.blocked_bot_ids THEN "bot-blocked"
    ELSE IF c.allowed_bot_ids /= {} /\ ev.author_id \notin c.allowed_bot_ids
         THEN "bot-not-allowed"
    ELSE "pass"

AntiSpamFullOffByOne(c, n) == n > c.max_responses

\* the anti-spam test of should_reply
AntiSpamFull(c, n) == n >= c.max_responses

MentionGateOnlyWithoutNames(c, is_direct) ==
    c.mention_required /\ ~is_direct /\ ~c.respond_to_name

\* the mention-required gate of should_reply
MentionGate(c, is_direct) == c.mention_required /\ ~is_direct

ChannelAllowedOrOverride(c, ch) ==
    ch \in c.allowed_general_channels \cup c.response_chance_override_channels

\* the general-chat allow-list test of should_reply
ChannelAllowed(c, ch) == ch \in c.allowed_general_channels

IsDirectWithoutNames(ev, name_matched) == ev.is_mentioned \/ ev.is_reply_to_bot

\* is_direct of should_reply
IsDirect(ev, name_matched) ==
    ev.is_mentioned \/ name_matched \/ ev.is_reply_to_bot

\* reason of a direct-trigger allow
DirectReason(ev, name_matched) ==
    IF name_matched /\ ~ev.is_mentioned THEN "mention-alias" ELSE "mention"

\* seconds_since_last of should_reply
SecondsSinceLast(last, t) == IF last = NoneT THEN t - EpochT ELSE t - last

CooldownOkAlwaysAnd(c, messages_since_last, seconds_since_last) ==
    /\ messages_since_last >= c.cooldown_min_messages
    /\ seconds_since_last >= c.cooldown_min_seconds

\* cooldown_ok of should_reply
CooldownOk(c, messages_since_last, seconds_since_last) ==
    LET messages_ok == messages_since_last >= c.cooldown_min_messages
        seconds_ok == seconds_since_last >= c.cooldown_min_seconds
    IN  IF c.cooldown_logic_type = "AND" THEN messages_ok /\ seconds_ok
        ELSE messages_ok \/ seconds_ok

\* a chance gate that lets the roll equal to the chance pass
ChancePassInclusive(c, roll) == ~(roll > c.random_response_chance)

\* the random chance gate: the roll passes
ChancePass(c, roll) == ~(roll >= c.random_response_chance)

IsOverrideNever(c, ch) == FALSE

\* is_response_chance_override
IsOverride(c, ch) == ch \in c.response_chance_override_channels

Decision(allow, reason, style, ephemeral, hint, roll) ==
    [allow |-> allow, reason |-> reason, style |-> style,
     ephemeral |-> ephemeral, context_hint |-> hint, roll |-> roll]

Deny(reason) == Decision(FALSE, reason, "none", FALSE, FALSE, 0)

\* the part of should_reply after the anti-spam check
DecideAfterAntiSpam(c, ev, seconds_since_last, messages_since_last, roll) ==
    LET name_matched == NameMatch(c, Lower(ev.content))
        is_direct == IsDirect(ev, name_matched)
        is_override == IsOverride(c, ev.channel_id)
        cooldown_ok == CooldownOk(c, messages_since_last, seconds_since_last)
    IN  IF MentionGate(c, is_direct) THEN Deny("mention-required")
        ELSE IF is_direct
             THEN Decision(TRUE, DirectReason(ev, name_matched), "reply", FALSE, FALSE, 0)
        ELSE IF ~ChannelAllowed(c, ev.channel_id)
             THEN Deny("general-not-allowed-channel")
        ELSE IF ~cooldown_ok /\ ~is_override THEN Deny("cooldown")
        ELSE IF ~is_override /\ ~ChancePass(c, roll)
             THEN Decision(FALSE, "chance-failed", "none", FALSE, FALSE, roll)
        ELSE Decision(TRUE,
                      IF is_override THEN "general-override" ELSE "general",
                      "normal", FALSE,
                      seconds_since_last >= c.cooldown_min_seconds,
                      IF is_override THEN 0 ELSE roll)

\* ParticipationPolicy.should_reply, given the pruned reply deque q of the
\* event's channel, the channel's last reply time and store, and the roll
ShouldReply(c, ev, q, last, st, t, roll) ==
    IF BotGate(c, ev) /= "pass" THEN Deny(BotGate(c, ev))
    ELSE IF AntiSpamFull(c, Len(q))
         THEN Decision(FALSE, "anti-spam", "none", TRUE, FALSE, 0)
    ELSE DecideAfterAntiSpam(c, ev, SecondsSinceLast(last, t),
                             MessagesSinceLastReply(st, last), roll)

\* ---------------------------------------------------------------------------
\* Configurations and events
\* ---------------------------------------------------------------------------
\* the test-suite configuration of make_policy, anti-spam limit of the anti-spam test
BaseConfig ==
    [mention_required |-> FALSE,
     respond_to_name |-> TRUE,
     aliases |-> {AliasAi},
     name_matching_mode |-> "strict",
     cooldown_min_messages |-> CooldownMinMessages,
     cooldown_min_seconds |-> CooldownMinSeconds,
     cooldown_logic_type |-> "OR",
     window_seconds |-> WindowSeconds,
     max_responses |-> MaxResponses,
     random_response_chance |-> 100,
     allowed_general_channels |-> {"c1"},
     response_chance_override_channels |-> {},
     respond_to_bots |-> TRUE,
     blocked_bot_ids |-> {},
     allowed_bot_ids |-> {},
     cm_enabled |-> FALSE,
     cm_window_seconds |-> CmWindowSeconds,
     cm_max_messages |-> CmMaxMessages,
     cm_include_non_replies |-> FALSE,
     cm_affects_cooldown |-> TRUE]

\* every combination of the gates the decision depends on
CoreConfigs ==
    {[BaseConfig EXCEPT !.mention_required = mr,
                        !.cooldown_logic_type = lt,
                        !.random_response_chance = ch,
                        !.allowed_general_channels = al,
                        !.response_chance_override_channels = ov] :
        mr \in BOOLEAN, lt \in {"AND", "OR"}, ch \in Chances,
        al \in {{}, {"c1"}}, ov \in {{}, {"c1"}}}

\* name matching and the bot settings, varied on the base configuration
SideConfigs ==
    {[BaseConfig EXCEPT !.mention_required = mr, !.name_matching_mode = "loose"] :
        mr \in BOOLEAN}
    \cup {[BaseConfig EXCEPT !.mention_required = mr, !.respond_to_name = FALSE] :
            mr \in BOOLEAN}
    \cup {[BaseConfig EXCEPT !.mention_required = mr,
                             !.respond_to_bots = rb,
                             !.blocked_bot_ids = bl,
                             !.allowed_bot_ids = ab] :
            mr \in BOOLEAN, rb \in BOOLEAN, bl \in {{}, {"b1"}}, ab \in {{}, {"b2"}}}

PolicyConfigs == CoreConfigs \cup SideConfigs

Event(ch, au, mid, content, mentioned, is_reply, reply_to_bot, t) ==
    [channel_id |-> ch, author_id |-> au, message_id |-> mid, content |-> content,
     is_bot |-> au \in BotAuthors, created_at |-> t, is_mentioned |-> mentioned,
     is_reply |-> is_reply, is_reply_to_bot |-> reply_to_bot]

\* the events the policy specification decides on
PolicyEvents(t) ==
    {Event(ch, "u1", 1, co, me, rb, rb, t) :
        ch \in Channels, co \in Contents, me \in BOOLEAN, rb \in BOOLEAN}
    \cup {Event(ch, "b1", 1, Hello, me, FALSE, FALSE, t) :
            ch \in Channels, me \in BOOLEAN}

NoEvent == Event("c1", "u1", 0, <<>>, FALSE, FALSE, FALSE, 0)

IdleCall ==
    [phase |-> "idle", event |-> NoEvent, riw |-> 0, seconds_since_last |-> 0,
     messages_since_last |-> 0, decision |-> Deny("none")]

\* a loop of bot_app between two iterations
NoLoop == [pc |-> "idle", channel_id |-> "c1", active |-> FALSE, was_active |-> FALSE,
           events |-> <<>>]

NoHandled == [event |-> NoEvent, outcome |-> "none", decision |-> Deny("none"),
              policy_decision |-> Deny("none"), replies_logged |-> 0,
              conv_active |-> FALSE, recorded |-> FALSE, recorded_as_direct |-> FALSE,
              conv_direct |-> FALSE, enqueued |-> FALSE]

\* no helper call in progress
NoOp == [kind |-> "none"]

NoSent == [kind |-> "none", channel_id |-> "c1", reason |-> "none",
           window_full |-> FALSE, in_window |-> FALSE, non_trigger |-> FALSE]

NoWindow == [until |-> NoneT, budget |-> 0, replies |-> 0]

\* the state of the router, batcher, queue and loops after construction
RouterIdle ==
    /\ conv_until = [ch \in Channels |-> NoneT]
    /\ conv_budget = [ch \in Channels |-> NoneT]
    /\ responded_to = [ch \in Channels |-> {}]
    /\ buffers = [ch \in Channels |-> <<>>]
    /\ seen_sets = [ch \in Channels |-> {}]
    /\ mq = [ch \in Channels |-> <<>>]
    /\ pending = {}
    /\ batch_loop = NoLoop
    /\ mention_loop = NoLoop
    /\ prev_conv_active = [ch \in Channels |-> FALSE]
    /\ next_id = 1
    /\ handled = NoHandled
    /\ last_sent = NoSent
    /\ op = NoOp
    /\ on_replied_log = [ch \in Channels |-> <<>>]
    /\ window_log = [ch \in Channels |-> NoWindow]

\* ---------------------------------------------------------------------------
\* Policy specification: the ConversationMemory operations in any order, and
\* should_reply applied to the memory they produce
\* ---------------------------------------------------------------------------
PInit ==
    /\ cfg \in PolicyConfigs
    /\ tick = 1
    /\ store = [ch \in Channels |-> <<>>]
    /\ last_reply = [ch \in Channels |-> NoneT]
    /\ replies_timestamps = [ch \in Channels |-> <<>>]
    /\ call = IdleCall
    /\ RouterIdle

\* time passes
PTick ==
    /\ call.phase = "idle"
    /\ tick <= PMaxTick
    /\ tick' = tick + 1
    /\ UNCHANGED <<cfg, store, last_reply, replies_timestamps, call, routerVars>>

\* memory.record(event) of a message arriving now
PRecord(ch, au) ==
    /\ call.phase = "idle"
    /\ Len(store[ch]) < PMaxStore
    /\ store' = [store EXCEPT
                    ![ch] = Record(@, Event(ch, au, 1, Hello, FALSE, FALSE, FALSE, now))]
    /\ UNCHANGED <<cfg, tick, last_reply, replies_timestamps, call, routerVars>>

\* memory.on_replied(event)
POnReplied(ch) ==
    /\ call.phase = "idle"
    /\ Len(replies_timestamps[ch]) < PMaxReplies
    /\ last_reply' = [last_reply EXCEPT ![ch] = now]
    /\ replies_timestamps' = [replies_timestamps EXCEPT ![ch] = PushReply(@, now)]
    /\ UNCHANGED <<cfg, tick, store, call, routerVars>>

\* policy.should_reply(event, memory)
PDecide(ev, roll) ==
    /\ call.phase = "idle"
    /\ LET ch == ev.channel_id
           q == ResponsesInWindow(replies_timestamps[ch], cfg.window_seconds, now)
           last == LastReplyInfo(ch)
       IN  /\ replies_timestamps' =
                 IF BotGate(cfg, ev) = "pass"
                 THEN [replies_timestamps EXCEPT ![ch] = q]
                 ELSE replies_timestamps
           /\ call' = [phase |-> "decided", event |-> ev, riw |-> Len(q),
                       seconds_since_last |-> SecondsSinceLast(last, now),
                       messages_since_last |-> MessagesSinceLastReply(store[ch], last),
                       decision |-> ShouldReply(cfg, ev, q, last, store[ch], now, roll)]
    /\ UNCHANGED <<cfg, tick, store, last_reply, routerVars>>

\* should_reply returns; the decision is not kept
PReturn ==
    /\ call.phase = "decided"
    /\ call' = IdleCall
    /\ UNCHANGED <<cfg, tick, store, last_reply, replies_timestamps, routerVars>>

PNext ==
    \/ PTick
    \/ PRecord("c1", "u1")
    \/ POnReplied("c1")
    \/ \E ev \in PolicyEvents(now), roll \in Rolls : PDecide(ev, roll)
    \/ PReturn

PolicySpec == PInit /\ [][PNext]_vars

\* ---------------------------------------------------------------------------
\* Properties of should_reply (PolicySpec)
\* ---------------------------------------------------------------------------
Decided == call.phase = "decided"
Ev == call.event
Dec == call.decision

\* replies of the event's channel whose time lies in the trailing window_seconds
RepliesInWindow ==
    Cardinality({i \in 1..Len(replies_timestamps[Ev.channel_id]) :
                    replies_timestamps[Ev.channel_id][i] >= now - cfg.window_seconds})

WindowFull == RepliesInWindow >= cfg.max_responses

\* the events that pass the bot gate, stated from the configuration
PassesBotGate ==
    \/ ~Ev.is_bot
    \/ /\ cfg.respond_to_bots
       /\ Ev.author_id \notin cfg.blocked_bot_ids
       /\ (cfg.allowed_bot_ids = {} \/ Ev.author_id \in cfg.allowed_bot_ids)

\* the contents that hold the alias as a word of its own, per matching mode
AliasHit ==
    /\ cfg.respond_to_name
    /\ \/ Ev.content = HeyAiHelp
       \/ Ev.content = AiChan /\ cfg.name_matching_mode = "loose"

DirectTrigger == Ev.is_mentioned \/ AliasHit \/ Ev.is_reply_to_bot

\* C1: an event that passes the bot gate while its channel's anti-spam window
\* is full is denied with reason anti-spam and ephemeral set, direct trigger
\* or not, override channel or not.
C1_AntiSpamDenies ==
    (Decided /\ PassesBotGate /\ WindowFull)
        => (~Dec.allow /\ Dec.reason = "anti-spam" /\ Dec.ephemeral)

C1_Witness ==
    /\ Decided /\ PassesBotGate /\ WindowFull
    /\ Ev.is_mentioned
    /\ Ev.channel_id \in cfg.response_chance_override_channels
    /\ Dec.reason = "anti-spam"

\* the cooldown predicate as the claim states it
CooldownPredicate ==
    LET messages_ok == call.messages_since_last >= cfg.cooldown_min_messages
        seconds_ok == call.seconds_since_last >= cfg.cooldown_min_seconds
    IN  (cfg.cooldown_logic_type = "AND" /\ messages_ok /\ seconds_ok)
        \/ (cfg.cooldown_logic_type /= "AND" /\ (messages_ok \/ seconds_ok))

GeneralCase ==
    /\ Decided /\ PassesBotGate /\ ~WindowFull
    /\ ~DirectTrigger /\ ~cfg.mention_required

\* C5: a general-chat event in an allow-listed, non-override channel is denied
\* with reason cooldown exactly when the cooldown predicate (AND / OR of the
\* message and the seconds threshold) fails.
C5_CooldownExactly ==
    (/\ GeneralCase
     /\ Ev.channel_id \in cfg.allowed_general_channels
     /\ Ev.channel_id \notin cfg.response_chance_override_channels)
        => ((Dec.reason = "cooldown" /\ ~Dec.allow) <=> ~CooldownPredicate)

C5_Witness ==
    /\ GeneralCase
    /\ Ev.channel_id \in cfg.allowed_general_channels
    /\ Ev.channel_id \notin cfg.response_chance_override_channels
    /\ cfg.cooldown_logic_type = "OR"
    /\ call.messages_since_last = 2 /\ call.seconds_since_last = 10
    /\ Dec.reason = "cooldown"

\* C6: a general-chat event in an allow-listed override channel is allowed with
\* reason general-override whatever the cooldown state and the chance, unless
\* the anti-spam window is full, when it is denied with anti-spam.
C6_OverrideBypassesCooldown ==
    (/\ Decided /\ PassesBotGate /\ ~DirectTrigger /\ ~cfg.mention_required
     /\ Ev.channel_id \in cfg.allowed_general_channels
     /\ Ev.channel_id \in cfg.response_chance_override_channels)
        => IF WindowFull THEN ~Dec.allow /\ Dec.reason = "anti-spam"
           ELSE Dec.allow /\ Dec.reason = "general-override"

C6_Witness ==
    /\ GeneralCase
    /\ Ev.channel_id \in cfg.allowed_general_channels
    /\ Ev.channel_id \in cfg.response_chance_override_channels
    /\ call.seconds_since_last = 0 /\ call.messages_since_last = 0
    /\ cfg.random_response_chance = 0
    /\ Dec.allow /\ Dec.reason = "general-override"

\* C7: a direct trigger that passes the bot gate while the window is not full
\* is allowed with style reply, whatever mention_required, the allow-list, the
\* cooldown and the chance; an alias-only match has reason mention-alias.
C7_DirectTriggerAllowed ==
    (Decided /\ PassesBotGate /\ ~WindowFull /\ DirectTrigger)
        => /\ Dec.allow /\ Dec.style = "reply"
           /\ (~Ev.is_mentioned /\ ~Ev.is_reply_to_bot) => Dec.reason = "mention-alias"

C7_Witness ==
    /\ Decided /\ ~WindowFull
    /\ cfg.mention_required /\ cfg.name_matching_mode = "strict"
    /\ Ev.content = HeyAiHelp /\ ~Ev.is_mentioned /\ ~Ev.is_reply_to_bot
    /\ Ev.channel_id \notin cfg.allowed_general_channels
    /\ Dec = Decision(TRUE, "mention-alias", "reply", FALSE, FALSE, 0)

\* C8: with mention_required off, a general-chat event in a channel outside
\* the allow-list is denied with reason general-not-allowed-channel, whatever
\* the cooldown, the chance and the override listing of the channel.
C8_NotAllowedChannelDenied ==
    (GeneralCase /\ Ev.channel_id \notin cfg.allowed_general_channels)
        => (~Dec.allow /\ Dec.reason = "general-not-allowed-channel")

C8_Witness ==
    /\ GeneralCase
    /\ Ev.channel_id \notin cfg.allowed_general_channels
    /\ Ev.channel_id \in cfg.response_chance_override_channels
    /\ cfg.random_response_chance = 100
    /\ CooldownPredicate
    /\ Dec.reason = "general-not-allowed-channel"

\* C9: with mention_required set, an event that is no direct trigger and
\* passes the bot gate and the anti-spam check is denied with reason
\* mention-required, in every channel and whatever the cooldown and chance.
C9_MentionRequiredDenies ==
    (/\ Decided /\ PassesBotGate /\ ~WindowFull
     /\ ~DirectTrigger /\ cfg.mention_required)
        => (~Dec.allow /\ Dec.reason = "mention-required")

C9_Witness ==
    /\ Decided /\ PassesBotGate /\ ~WindowFull
    /\ ~DirectTrigger /\ cfg.mention_required
    /\ Ev.channel_id \in cfg.allowed_general_channels
    /\ Ev.channel_id \in cfg.response_chance_override_channels
    /\ CooldownPredicate /\ cfg.random_response_chance = 100
    /\ Dec.reason = "mention-required"

ConvCheckKeep(until, budget, t) ==
    IF until = NoneT THEN [active |-> FALSE, until |-> until, budget |-> budget]
    ELSE IF t <= until /\ budget > 0
         THEN [active |-> TRUE, until |-> until, budget |-> budget]
    ELSE [active |-> FALSE, until |-> until, budget |-> budget]

\* ---------------------------------------------------------------------------
\* Conversation mode, batcher and queue operations
\* ---------------------------------------------------------------------------
\* ConversationMemory.conversation_mode_active: its result and the channel's
\* expiry and budget after the lazy expiry
ConvCheck(until, budget, t) ==
    IF until = NoneT THEN [active |-> FALSE, until |-> until, budget |-> budget]
    ELSE IF t <= until /\ budget > 0
         THEN [active |-> TRUE, until |-> until, budget |-> budget]
    ELSE [active |-> FALSE, until |-> NoneT, budget |-> NoneT]

ConvConsumeFree(until, budget, t) ==
    LET c == ConvCheck(until, budget, t)
    IN  [ok |-> c.active, until |-> c.until, budget |-> c.budget]

\* ConversationMemory.consume_conversation_message: its result and the
\* channel's expiry and budget afterwards
ConvConsume(until, budget, t) ==
    LET c == ConvCheck(until, budget, t)
    IN  IF ~c.active THEN [ok |-> FALSE, until |-> c.until, budget |-> c.budget]
        ELSE [ok |-> TRUE, until |-> c.until,
              budget |-> IF c.budget - 1 > 0 THEN c.budget - 1 ELSE 0]

BatcherAddMaxNoDedupe(buf, seen, ev, max_buffer) ==
    LET b1 == Append(buf, ev)
        s1 == seen \cup {ev.message_id}
    IN  IF Len(b1) > max_buffer
        THEN [buf |-> Tail(b1), seen |-> s1 \ {Head(b1).message_id}, added |-> TRUE]
        ELSE [buf |-> b1, seen |-> s1, added |-> TRUE]

\* ConversationBatcher.add of a batcher built with max_buffer_per_channel =
\* max_buffer: the channel's buffer and id set afterwards, and the result
\* an add that drops the oldest event on overflow but keeps its id in the id set
BatcherAddMaxKeepsEvicted(buf, seen, ev, max_buffer) ==
    IF ev.message_id \in seen THEN [buf |-> buf, seen |-> seen, added |-> FALSE]
    ELSE LET b1 == Append(buf, ev)
             s1 == seen \cup {ev.message_id}
         IN  IF Len(b1) > max_buffer
             THEN [buf |-> Tail(b1), seen |-> s1, added |-> TRUE]
             ELSE [buf |-> b1, seen |-> s1, added |-> TRUE]

BatcherAddMax(buf, seen, ev, max_buffer) ==
    IF ev.message_id \in seen THEN [buf |-> buf, seen |-> seen, added |-> FALSE]
    ELSE LET b1 == Append(buf, ev)
             s1 == seen \cup {ev.message_id}
         IN  IF Len(b1) > max_buffer
             THEN [buf |-> Tail(b1), seen |-> s1 \ {Head(b1).message_id}, added |-> TRUE]
             ELSE [buf |-> b1, seen |-> s1, added |-> TRUE]

\* ConversationBatcher.add of the batcher bot_app builds
BatcherAdd(buf, seen, ev) == BatcherAddMax(buf, seen, ev, MaxBuffer)

\* a drain that hands the events out but keeps their ids in the id set
BatcherDrainKeepsIds(buf, seen, limit) ==
    LET lim == IF limit > 1 THEN limit ELSE 1
        n == IF Len(buf) < lim THEN Len(buf) ELSE lim
    IN  [out |-> SubSeq(buf, 1, n), buf |-> SubSeq(buf, n + 1, Len(buf)), seen |-> seen]

\* ConversationBatcher.drain: the drained events, and the buffer and id set left
BatcherDrain(buf, seen, limit) ==
    LET lim == IF limit > 1 THEN limit ELSE 1
        n == IF Len(buf) < lim THEN Len(buf) ELSE lim
        out == SubSeq(buf, 1, n)
    IN  [out |-> out, buf |-> SubSeq(buf, n + 1, Len(buf)),
         seen |-> seen \ {out[i].message_id : i \in 1..n}]

\* name_matched of handle_message
RouterNameMatched(c, ev) ==
    c.respond_to_name /\ \E a \in c.aliases : Contains(Lower(ev.content), a)

\* is_direct of handle_message
RouterIsDirect(c, ev) ==
    ev.is_mentioned \/ RouterNameMatched(c, ev) \/ ev.is_reply_to_bot

\* name_matched of the anti-spam branch of handle_message
QueueNameMatched(c, ev) == \E a \in c.aliases : Contains(Lower(ev.content), a)

\* a batching condition that does not let mentions through
BatchesEventMentionsToo(ev, active, allowed_channel) ==
    active /\ (allowed_channel \/ ev.is_reply)

\* the condition of _maybe_enqueue_for_batch and of the late batching branch
BatchesEvent(ev, active, allowed_channel) ==
    active /\ ~ev.is_mentioned /\ (allowed_channel \/ ev.is_reply)

\* the conversation-mode adjustment of a denied decision in handle_message:
\* the decision, the conversation state afterwards, whether a slot was consumed
ConvAdjust(c, ev, d0, cm, allowed_channel, t) ==
    LET keep == [decision |-> d0, until |-> cm.until, budget |-> cm.budget,
                 consumed |-> FALSE]
        style == IF ev.is_reply THEN "reply" ELSE "normal"
        allowed == Decision(TRUE, "conversation-mode", style, FALSE, FALSE, 0)
        allow_this == IF allowed_channel THEN ev.is_reply \/ c.cm_include_non_replies
                      ELSE ev.is_reply
        used == ConvConsume(cm.until, cm.budget, t)
    IN  IF d0.allow \/ ~cm.active THEN keep
        ELSE IF ev.is_mentioned \/ RouterNameMatched(c, ev)
             THEN [keep EXCEPT !.decision = allowed]
        ELSE IF c.mention_required THEN keep
        ELSE IF allow_this /\ used.ok
             THEN [decision |-> allowed, until |-> used.until, budget |-> used.budget,
                   consumed |-> TRUE]
        ELSE keep

\* the bot's own message as recorded after a send
BotRecord(ch, t) == Event(ch, "self", 0, <<>>, FALSE, FALSE, FALSE, t)

\* ---------------------------------------------------------------------------
\* Router specification: messages arrive at handle_message, replies complete
\* after the backend answers, and the two loops of bot_app run beside them
\* ---------------------------------------------------------------------------
\* a message that is neither a mention, nor a reply to the bot, nor holds an
\* alias, be it as a word of its own or inside another word
NonTrigger(c, ev) ==
    /\ ~ev.is_mentioned
    /\ ~ev.is_reply_to_bot
    /\ ~NameMatch(c, ev.content)
    /\ ~\E a \in c.aliases : Contains(Lower(ev.content), a)

\* the configurations of the router specification: conversation mode on or off
RouterConfigs == {[BaseConfig EXCEPT !.cm_enabled = en] : en \in BOOLEAN}

\* the messages the platform delivers, with message id `mid` at time t
RouterEvents(mid, t) ==
    {Event(ch, "u1", mid, Hello, TRUE, FALSE, FALSE, t) : ch \in Channels}
    \cup {Event(ch, "u1", mid, MainEvent, FALSE, FALSE, FALSE, t) : ch \in Channels}
    \cup {Event("c1", "u1", mid, Hello, FALSE, FALSE, FALSE, t)}

\* the roll of random.random() in the router specification; no gate of the
\* router configurations depends on it
RouterRolls == {49}

RInit ==
    /\ cfg \in RouterConfigs
    /\ tick = 1
    /\ store = [ch \in Channels |-> <<>>]
    /\ last_reply = [ch \in Channels |-> NoneT]
    /\ replies_timestamps = [ch \in Channels |-> <<>>]
    /\ call = IdleCall
    /\ RouterIdle

\* time passes
RTick ==
    /\ tick <= RMaxTick
    /\ tick' = tick + 1
    /\ UNCHANGED <<cfg, store, last_reply, replies_timestamps, call, routerVars>>

\* history: the on_replied calls of the channel in the trailing window_seconds
LoggedInWindow(ch) ==
    Cardinality({i \in 1..Len(on_replied_log[ch]) :
                    on_replied_log[ch][i] >= now - cfg.window_seconds})

\* MessageRouter.handle_message up to the point where it returns or starts to
\* build the reply; from_queue tells a delivery by process_mentions_loop
HandleMessage(ev, roll, from_queue) ==
    LET ch == ev.channel_id
        allowed_channel == ChannelAllowed(cfg, ch)
        is_direct == RouterIsDirect(cfg, ev)
        st1 == IF is_direct \/ allowed_channel THEN Record(store[ch], ev) ELSE store[ch]
        st2 == IF is_direct \/ allowed_channel THEN st1 ELSE Record(st1, ev)
        cm0 == ConvCheck(conv_until[ch], conv_budget[ch], now)
        batched0 == BatchesEvent(ev, cm0.active, allowed_channel)
        q == ResponsesInWindow(replies_timestamps[ch], cfg.window_seconds, now)
        d0 == ShouldReply(cfg, ev, q, last_reply[ch], st1, now, roll)
        adj == ConvAdjust(cfg, ev, d0, cm0, allowed_channel, now)
        d == adj.decision
        cm1 == ConvCheck(adj.until, adj.budget, now)
        throttled == ~d.allow /\ d.ephemeral /\ d.reason = "anti-spam"
        enqueue == /\ throttled
                   /\ ev.is_mentioned \/ QueueNameMatched(cfg, ev)
                   /\ Len(mq[ch]) < MaxPerChannel
        batched1 == d.allow /\ BatchesEvent(ev, cm1.active, allowed_channel)
        added == BatcherAdd(buffers[ch], seen_sets[ch], ev)
        outcome == IF batched0 \/ batched1 THEN "batched"
                   ELSE IF d.allow THEN "replying" ELSE "denied"
    IN  /\ store' = [store EXCEPT ![ch] = IF batched0 \/ batched1 THEN st2 ELSE st1]
        /\ conv_until' = [conv_until EXCEPT
                             ![ch] = IF batched0 THEN cm0.until
                                     ELSE IF d.allow THEN cm1.until ELSE adj.until]
        /\ conv_budget' = [conv_budget EXCEPT
                              ![ch] = IF batched0 THEN cm0.budget
                                      ELSE IF d.allow THEN cm1.budget ELSE adj.budget]
        /\ buffers' = [buffers EXCEPT
                          ![ch] = IF batched0 \/ batched1 THEN added.buf ELSE @]
        /\ seen_sets' = [seen_sets EXCEPT
                            ![ch] = IF batched0 \/ batched1 THEN added.seen ELSE @]
        /\ replies_timestamps' =
              IF ~batched0 /\ BotGate(cfg, ev) = "pass"
              THEN [replies_timestamps EXCEPT ![ch] = q]
              ELSE replies_timestamps
        /\ call' = IF batched0 THEN IdleCall
                   ELSE [phase |-> "decided", event |-> ev, riw |-> Len(q),
                         seconds_since_last |-> SecondsSinceLast(last_reply[ch], now),
                         messages_since_last |->
                             MessagesSinceLastReply(st1, last_reply[ch]),
                         decision |-> d0]
        /\ mq' = IF ~batched0 /\ enqueue THEN [mq EXCEPT ![ch] = Append(@, ev)] ELSE mq
        /\ pending' = IF outcome = "replying"
                      THEN pending \cup {[event |-> ev, decision |-> d,
                                          from_queue |-> from_queue,
                                          window_full |-> AntiSpamFull(cfg, Len(q))]}
                      ELSE pending
        /\ handled' = [event |-> ev,
                       outcome |-> outcome,
                       decision |-> IF batched0 THEN Deny("none") ELSE d,
                       policy_decision |-> IF batched0 THEN Deny("none") ELSE d0,
                       replies_logged |-> LoggedInWindow(ch),
                       conv_active |-> cm0.active,
                       recorded |-> is_direct \/ allowed_channel,
                       recorded_as_direct |-> is_direct /\ ~allowed_channel,
                       conv_direct |-> /\ ~batched0 /\ ~d0.allow /\ cm0.active
                                       /\ (ev.is_mentioned \/ RouterNameMatched(cfg, ev)),
                       enqueued |-> ~batched0 /\ enqueue]
        /\ UNCHANGED <<op, cfg, tick, last_reply, responded_to, prev_conv_active, last_sent,
                       on_replied_log, window_log>>

\* a message arrives from the platform
Arrive ==
    /\ next_id <= RMaxMessages
    /\ \E ev \in RouterEvents(next_id, now), roll \in RouterRolls :
          HandleMessage(ev, roll, FALSE)
    /\ next_id' = next_id + 1
    /\ UNCHANGED <<batch_loop, mention_loop>>

\* the channel's anti-spam window is full by the count of responses_in_window
WindowFullNow(ch) ==
    AntiSpamFull(cfg, Len(ResponsesInWindow(replies_timestamps[ch], cfg.window_seconds, now)))

\* a reply that starts a window whether or not one is active
WindowStartDueAlways(c, active) == c.cm_enabled

\* after a reply: conversation mode is enabled and no window is active
WindowStartDue(c, active) == c.cm_enabled /\ ~active

\* the rest of handle_message: the reply is sent, then on_replied unless the
\* reply leaves the cooldown alone, the conversation window is started if none
\* is active, and the bot's message is recorded
CompleteReply(p) ==
    LET ev == p.event
        ch == ev.channel_id
        skip_cooldown == p.decision.reason = "conversation-mode" /\ ~cfg.cm_affects_cooldown
        cm == ConvCheck(conv_until[ch], conv_budget[ch], now)
        starts == WindowStartDue(cfg, cm.active)
        counted == cm.active /\ p.decision.reason = "conversation-mode"
                   /\ NonTrigger(cfg, ev)
    IN  /\ p \in pending
        /\ pending' = pending \ {p}
        /\ last_reply' = IF skip_cooldown THEN last_reply
                         ELSE [last_reply EXCEPT ![ch] = now]
        /\ replies_timestamps' =
              IF skip_cooldown THEN replies_timestamps
              ELSE [replies_timestamps EXCEPT ![ch] = PushReply(@, now)]
        /\ responded_to' = IF skip_cooldown THEN responded_to
                           ELSE [responded_to EXCEPT ![ch] = @ \cup {ev.message_id}]
        /\ conv_until' = [conv_until EXCEPT
                             ![ch] = IF starts THEN now + cfg.cm_window_seconds
                                     ELSE IF cfg.cm_enabled THEN cm.until ELSE @]
        /\ conv_budget' = [conv_budget EXCEPT
                              ![ch] = IF starts THEN cfg.cm_max_messages
                                      ELSE IF cfg.cm_enabled THEN cm.budget ELSE @]
        /\ store' = [store EXCEPT ![ch] = Record(@, BotRecord(ch, now))]
        /\ mention_loop' = IF p.from_queue THEN NoLoop ELSE mention_loop
        /\ last_sent' = [kind |-> "immediate", channel_id |-> ch,
                         reason |-> p.decision.reason,
                         window_full |-> p.window_full /\ WindowFullNow(ch),
                         in_window |-> cm.active,
                         non_trigger |-> NonTrigger(cfg, ev)]
        /\ on_replied_log' = IF skip_cooldown THEN on_replied_log
                             ELSE [on_replied_log EXCEPT ![ch] = Append(@, now)]
        /\ window_log' = [window_log EXCEPT
                             ![ch] = IF starts
                                     THEN [until |-> now + cfg.cm_window_seconds,
                                           budget |-> cfg.cm_max_messages, replies |-> 0]
                                     ELSE IF counted THEN [@ EXCEPT !.replies = @ + 1]
                                     ELSE @]
        /\ UNCHANGED <<op, cfg, tick, call, buffers, seen_sets, mq, batch_loop,
                       prev_conv_active, next_id, handled>>

\* process_batches_loop reaches a channel with buffered events: it reads
\* whether the conversation window is active and awaits the channel
BatchBegin(ch) ==
    LET cm == ConvCheck(conv_until[ch], conv_budget[ch], now)
    IN  /\ batch_loop.pc = "idle"
        /\ buffers[ch] /= <<>>
        /\ conv_until' = [conv_until EXCEPT ![ch] = cm.until]
        /\ conv_budget' = [conv_budget EXCEPT ![ch] = cm.budget]
        /\ batch_loop' = [pc |-> "fetching", channel_id |-> ch, active |-> cm.active,
                          was_active |-> prev_conv_active[ch], events |-> <<>>]
        /\ UNCHANGED <<op, cfg, tick, store, last_reply, replies_timestamps, call,
                       responded_to, buffers, seen_sets, mq, pending, mention_loop,
                       prev_conv_active, next_id, handled, last_sent, on_replied_log,
                       window_log>>

\* process_batches_loop drains the channel's buffer when the window is active
\* or has just ended, and awaits the batch reply; otherwise it clears the buffer
BatchDrain ==
    LET ch == batch_loop.channel_id
        dr == BatcherDrain(buffers[ch], seen_sets[ch], BatchLimit)
        drains == batch_loop.active \/ batch_loop.was_active
        builds == drains /\ dr.out /= <<>>
        clears == ~builds /\ ~batch_loop.active
    IN  /\ batch_loop.pc = "fetching"
        /\ buffers' = [buffers EXCEPT
                          ![ch] = IF clears THEN <<>> ELSE IF drains THEN dr.buf ELSE @]
        /\ seen_sets' = [seen_sets EXCEPT
                            ![ch] = IF clears THEN {} ELSE IF drains THEN dr.seen ELSE @]
        /\ batch_loop' = IF builds THEN [batch_loop EXCEPT !.pc = "building",
                                                           !.events = dr.out]
                         ELSE NoLoop
        /\ prev_conv_active' = IF builds THEN prev_conv_active
                               ELSE [prev_conv_active EXCEPT ![ch] = batch_loop.active]
        /\ UNCHANGED <<op, cfg, tick, store, last_reply, replies_timestamps, call,
                       conv_until, conv_budget, responded_to, mq, pending, mention_loop,
                       next_id, handled, last_sent, on_replied_log, window_log>>

\* process_batches_loop sends the batch reply built with
\* allow_outside_window=True and records the bot's message
BatchSend ==
    LET ch == batch_loop.channel_id
        evs == batch_loop.events
        in_window == batch_loop.active /\ now <= window_log[ch].until
        non_trigger == \A i \in 1..Len(evs) : NonTrigger(cfg, evs[i])
    IN  /\ batch_loop.pc = "building"
        /\ store' = [store EXCEPT ![ch] = Record(@, BotRecord(ch, now))]
        /\ buffers' = [buffers EXCEPT ![ch] = IF batch_loop.active THEN @ ELSE <<>>]
        /\ seen_sets' = [seen_sets EXCEPT ![ch] = IF batch_loop.active THEN @ ELSE {}]
        /\ prev_conv_active' = [prev_conv_active EXCEPT ![ch] = batch_loop.active]
        /\ batch_loop' = NoLoop
        /\ last_sent' = [kind |-> "batch", channel_id |-> ch, reason |-> "batch",
                         window_full |-> WindowFullNow(ch),
                         in_window |-> in_window,
                         non_trigger |-> non_trigger]
        /\ window_log' = [window_log EXCEPT
                             ![ch] = IF in_window /\ non_trigger
                                     THEN [@ EXCEPT !.replies = @ + 1] ELSE @]
        /\ UNCHANGED <<op, cfg, tick, last_reply, replies_timestamps, call, conv_until,
                       conv_budget, responded_to, mq, pending, mention_loop, next_id,
                       handled, on_replied_log>>

\* process_mentions_loop reaches a channel with queued mentions: it pops the
\* oldest one if the channel's anti-spam window has room
MentionsPoll(ch) ==
    LET q == ResponsesInWindow(replies_timestamps[ch], cfg.window_seconds, now)
        room == Len(q) < cfg.max_responses
    IN  /\ mention_loop.pc = "idle"
        /\ mq[ch] /= <<>>
        /\ replies_timestamps' = [replies_timestamps EXCEPT ![ch] = q]
        /\ mq' = IF room THEN [mq EXCEPT ![ch] = Tail(@)] ELSE mq
        /\ mention_loop' = IF room
                           THEN [NoLoop EXCEPT !.pc = "fetching", !.channel_id = ch,
                                               !.events = <<Head(mq[ch])>>]
                           ELSE mention_loop
        /\ UNCHANGED <<op, cfg, tick, store, last_reply, call, conv_until, conv_budget,
                       responded_to, buffers, seen_sets, pending, batch_loop,
                       prev_conv_active, next_id, handled, last_sent, on_replied_log,
                       window_log>>

\* process_mentions_loop has fetched the message and hands it to
\* handle_message, which it awaits
MentionsDeliver ==
    /\ mention_loop.pc = "fetching"
    /\ \E roll \in RouterRolls : HandleMessage(mention_loop.events[1], roll, TRUE)
    /\ mention_loop' = IF handled'.outcome = "replying"
                       THEN [mention_loop EXCEPT !.pc = "awaiting"]
                       ELSE NoLoop
    /\ UNCHANGED <<batch_loop, next_id>>

RNext ==
    \/ RTick
    \/ Arrive
    \/ \E p \in pending : CompleteReply(p)
    \/ \E ch \in Channels : BatchBegin(ch)
    \/ BatchDrain
    \/ BatchSend
    \/ \E ch \in Channels : MentionsPoll(ch)
    \/ MentionsDeliver

RouterSpec == RInit /\ [][RNext]_vars

\* ---------------------------------------------------------------------------
\* Properties of the router, the memory and the loops (RouterSpec)
\* ---------------------------------------------------------------------------
\* should_reply was evaluated for the last message handled
PolicyAsked == handled.policy_decision.reason /= "none"

\* C2: once max_responses replies have been recorded through on_replied in the
\* trailing window_seconds of a channel, should_reply denies the next attempt
\* in that channel with reason 'anti-spam' and ephemeral set, however the
\* earlier replies are spaced inside the window.
C2_AllRepliesOfWindowCounted ==
    (PolicyAsked /\ ~handled.event.is_bot /\ handled.replies_logged >= cfg.max_responses)
        => /\ handled.policy_decision.reason = "anti-spam"
           /\ handled.policy_decision.ephemeral
           /\ ~handled.policy_decision.allow

\* C3: no reply is sent, on the immediate path or by the batch loop, for a
\* channel whose anti-spam window is full (responses_in_window >=
\* max_responses), conversation mode or not.
C3_ConversationModeKeepsAntiSpam ==
    last_sent.kind /= "none" => ~last_sent.window_full

\* C4: within one conversation-mode window of a channel that is not a
\* response-chance-override channel, the replies to non-trigger messages
\* (conversation-mode replies and batch replies) never exceed the max_messages
\* budget the window was started with.
C4_WindowRepliesWithinBudget ==
    \A ch \in Channels :
        ~IsOverride(cfg, ch) => window_log[ch].replies <= window_log[ch].budget

\* the content holds an alias, but never as a word of its own
AliasOnlyInsideWord(c, ev) ==
    /\ c.name_matching_mode = "strict"
    /\ \E a \in c.aliases : Contains(Lower(ev.content), a)
    /\ ~NameMatch(c, ev.content)

\* C10: in strict mode a message that holds an alias only inside a longer word
\* and is neither a mention nor a reply to the bot is not a direct trigger
\* anywhere: no 'mention-alias' decision, not allowed as a direct trigger during
\* conversation mode, not recorded as a direct trigger, not queued as a
\* throttled mention.
C10_SubwordNeverDirect ==
    (/\ handled.outcome /= "none"
     /\ AliasOnlyInsideWord(cfg, handled.event)
     /\ ~handled.event.is_mentioned
     /\ ~handled.event.is_reply_to_bot)
        => /\ handled.policy_decision.reason /= "mention-alias"
           /\ ~handled.conv_direct
           /\ ~handled.recorded_as_direct
           /\ ~handled.enqueued

\* ---------------------------------------------------------------------------
\* Batcher specification: add, drain and clear of a ConversationBatcher in any
\* order, for a batcher built with the default or with a small maximum
\* ---------------------------------------------------------------------------
\* the state every specification starts from, apart from the helper call
Constructed ==
    /\ cfg = BaseConfig
    /\ tick = 1
    /\ store = [ch \in Channels |-> <<>>]
    /\ last_reply = [ch \in Channels |-> NoneT]
    /\ replies_timestamps = [ch \in Channels |-> <<>>]
    /\ call = IdleCall
    /\ conv_until = [ch \in Channels |-> NoneT]
    /\ conv_budget = [ch \in Channels |-> NoneT]
    /\ responded_to = [ch \in Channels |-> {}]
    /\ buffers = [ch \in Channels |-> <<>>]
    /\ seen_sets = [ch \in Channels |-> {}]
    /\ mq = [ch \in Channels |-> <<>>]
    /\ pending = {}
    /\ batch_loop = NoLoop
    /\ mention_loop = NoLoop
    /\ prev_conv_active = [ch \in Channels |-> FALSE]
    /\ next_id = 1
    /\ handled = NoHandled
    /\ last_sent = NoSent
    /\ on_replied_log = [ch \in Channels |-> <<>>]
    /\ window_log = [ch \in Channels |-> NoWindow]

\* the limits drain is called with
DrainLimits == {0, 1, BSmallLimit, BatchLimit}

BInit ==
    /\ Constructed
    /\ \E mb \in {BSmallBuffer, MaxBuffer} :
          op = [kind |-> "new", max_buffer |-> mb, channel_id |-> "c1",
                event |-> NoEvent, before |-> <<>>, result |-> FALSE, out |-> <<>>,
                limit |-> 0]

\* batcher.add(channel_id, event)
BAdd(ch, mid) ==
    LET ev == Event(ch, "u1", mid, Hello, FALSE, FALSE, FALSE, 0)
        r == BatcherAddMax(buffers[ch], seen_sets[ch], ev, op.max_buffer)
    IN  /\ Len(buffers[ch]) < BMaxLen
        /\ buffers' = [buffers EXCEPT ![ch] = r.buf]
        /\ seen_sets' = [seen_sets EXCEPT ![ch] = r.seen]
        /\ op' = [op EXCEPT !.kind = "add", !.channel_id = ch, !.event = ev,
                            !.before = buffers[ch], !.result = r.added, !.out = <<>>,
                            !.limit = 0]
        /\ UNCHANGED <<coreVars, loopVars>>

\* batcher.drain(channel_id, limit)
BDrain(ch, limit) ==
    LET dr == BatcherDrain(buffers[ch], seen_sets[ch], limit)
    IN  /\ buffers' = [buffers EXCEPT ![ch] = dr.buf]
        /\ seen_sets' = [seen_sets EXCEPT ![ch] = dr.seen]
        /\ op' = [op EXCEPT !.kind = "drain", !.channel_id = ch, !.event = NoEvent,
                            !.before = buffers[ch], !.result = FALSE, !.out = dr.out,
                            !.limit = limit]
        /\ UNCHANGED <<coreVars, loopVars>>

\* batcher.clear(channel_id)
BClear(ch) ==
    /\ buffers' = [buffers EXCEPT ![ch] = <<>>]
    /\ seen_sets' = [seen_sets EXCEPT ![ch] = {}]
    /\ op' = [op EXCEPT !.kind = "clear", !.channel_id = ch, !.event = NoEvent,
                        !.before = buffers[ch], !.result = FALSE, !.out = <<>>,
                        !.limit = 0]
    /\ UNCHANGED <<coreVars, loopVars>>

BNext ==
    \/ \E ch \in Channels, mid \in 1..BMaxId : BAdd(ch, mid)
    \/ \E ch \in Channels, limit \in DrainLimits : BDrain(ch, limit)
    \/ \E ch \in Channels : BClear(ch)

BatcherSpec == BInit /\ [][BNext]_vars

\* the id of the added event is the id of an event of the buffer before the add
WasPending ==
    \E i \in 1..Len(op.before) : op.before[i].message_id = op.event.message_id

\* C11: an add of an event whose message id is pending in the channel returns
\* False and leaves the buffer as it was, and a drain never returns two events
\* with the same message id.
C11_AddIdempotent ==
    /\ (op.kind = "add" /\ WasPending)
          => (~op.result /\ buffers[op.channel_id] = op.before)
    /\ op.kind = "drain"
          => \A i, j \in 1..Len(op.out) :
                op.out[i].message_id = op.out[j].message_id => i = j

C11_Witness ==
    /\ op.kind = "add"
    /\ WasPending
    /\ ~op.result
    /\ Len(op.before) >= 2

\* ---------------------------------------------------------------------------
\* Prompt budget: MessageRouter._assemble_and_budget. A content is the
\* sequence of its words and its token estimate is the number of its words,
\* as the tokenizer of the budget tests has it.
\* ---------------------------------------------------------------------------
Msg(role, content) == [role |-> role, content |-> content]

RECURSIVE EstimateTokensMessages(_)
\* tok.estimate_tokens_messages
EstimateTokensMessages(messages) ==
    IF messages = <<>> THEN 0
    ELSE Len(Head(messages).content) + EstimateTokensMessages(Tail(messages))

\* tok.truncate_text_tokens
TruncateTextTokens(text, max_tokens) ==
    IF Len(text) <= max_tokens THEN text ELSE SubSeq(text, 1, max_tokens)

IsProtectedNever(m, protect_last_assistant) == FALSE

\* the test that keeps the protected assistant entry in the trimming loop
IsProtected(m, protect_last_assistant) ==
    /\ protect_last_assistant /= <<>>
    /\ m.role = "assistant"
    /\ m.content = protect_last_assistant

RECURSIVE TrimHistoryNewestFirst(_, _, _, _, _)
TrimHistoryNewestFirst(trimmed, system_blocks, user_msg, prompt_budget, protect) ==
    IF trimmed /= <<>>
       /\ EstimateTokensMessages(system_blocks \o trimmed \o <<user_msg>>) > prompt_budget
    THEN IF IsProtected(trimmed[1], protect)
         THEN IF Len(trimmed) > 1
              THEN TrimHistoryNewestFirst(SubSeq(trimmed, 1, Len(trimmed) - 1),
                                          system_blocks, user_msg, prompt_budget, protect)
              ELSE trimmed
         ELSE TrimHistoryNewestFirst(SubSeq(trimmed, 1, Len(trimmed) - 1),
                                     system_blocks, user_msg, prompt_budget, protect)
    ELSE trimmed

RECURSIVE TrimHistory(_, _, _, _, _)
\* the while loop of step 1: pops the oldest entry, or the second oldest when
\* the oldest is protected
TrimHistory(trimmed, system_blocks, user_msg, prompt_budget, protect) ==
    IF trimmed /= <<>>
       /\ EstimateTokensMessages(system_blocks \o trimmed \o <<user_msg>>) > prompt_budget
    THEN IF IsProtected(trimmed[1], protect)
         THEN IF Len(trimmed) > 1
              THEN TrimHistory(<<trimmed[1]>> \o SubSeq(trimmed, 3, Len(trimmed)),
                               system_blocks, user_msg, prompt_budget, protect)
              ELSE trimmed
         ELSE TrimHistory(Tail(trimmed), system_blocks, user_msg, prompt_budget, protect)
    ELSE trimmed

\* the number of tokens the user turn is truncated to in step 2
UserAllowance(system_blocks, history, prompt_budget, truncate_user_min) ==
    LET base_tokens == EstimateTokensMessages(system_blocks \o history)
        raw0 == prompt_budget - base_tokens
        remaining_raw == IF raw0 < 1 THEN 1 ELSE raw0
    IN  IF prompt_budget < truncate_user_min THEN remaining_raw
        ELSE IF remaining_raw < truncate_user_min THEN truncate_user_min
        ELSE remaining_raw

\* MessageRouter._assemble_and_budget: the history and user turn it returns
\* and the two token totals
AssembleAndBudget(system_blocks, history, user_msg, prompt_budget, protect, truncate_user_min) ==
    LET tokens_before == EstimateTokensMessages(system_blocks \o history \o <<user_msg>>)
        history1 == IF tokens_before > prompt_budget /\ history /= <<>>
                    THEN TrimHistory(history, system_blocks, user_msg, prompt_budget,
                                     protect)
                    ELSE history
        total_after_history ==
            EstimateTokensMessages(system_blocks \o history1 \o <<user_msg>>)
        allow == UserAllowance(system_blocks, history1, prompt_budget, truncate_user_min)
        user1 == IF total_after_history > prompt_budget
                 THEN [user_msg EXCEPT !.content = TruncateTextTokens(@, allow)]
                 ELSE user_msg
    IN  [history |-> history1, user_msg |-> user1,
         messages |-> system_blocks \o history1 \o <<user1>>,
         tokens_before |-> tokens_before,
         tokens_after |-> EstimateTokensMessages(system_blocks \o history1 \o <<user1>>)]

\* a content of n words
Words(w, n) == [i \in 1..n |-> w]

\* the content of the protected parent reply of the budget tests
Keep == <<"KEEP">>

HistoryEntries ==
    {Msg("assistant", Keep), Msg("user", Keep),
     Msg("assistant", Words("a", 2)), Msg("user", Words("b", 3))}

Histories == UNION {[1..n -> HistoryEntries] : n \in 0..AMaxHistory}

SystemBlockLists == {<<Msg("system", Words("S", 1))>>, <<Msg("system", Words("S", 5))>>}

UserTurns == {Msg("user", <<>>), Msg("user", Words("t", 2)), Msg("user", Words("u", 10))}

\* max(1, max_ctx - reserve)
PromptBudgets == {1, 5, 6, 8, 10, 50}

\* protect_last_assistant: none, or the parent reply
Protects == {<<>>, Keep}

\* nothing returned yet
NoResult == [history |-> <<>>, user_msg |-> Msg("user", <<>>), messages |-> <<>>,
             tokens_before |-> 0, tokens_after |-> 0]

AInit ==
    /\ Constructed
    /\ \E sb \in SystemBlockLists, h \in Histories, u \in UserTurns,
          b \in PromptBudgets, pr \in Protects :
          op = [kind |-> "input", system_blocks |-> sb, history |-> h, user_msg |-> u,
                prompt_budget |-> b, protect_last_assistant |-> pr,
                result |-> NoResult]

\* a call of _assemble_and_budget returns
Assemble ==
    /\ op.kind = "input"
    /\ op' = [op EXCEPT
                 !.kind = "result",
                 !.result = AssembleAndBudget(op.system_blocks, op.history, op.user_msg,
                                              op.prompt_budget, op.protect_last_assistant,
                                              TruncateUserMin)]
    /\ UNCHANGED <<coreVars, loopVars, buffers, seen_sets>>

ANext == Assemble

AssembleSpec == AInit /\ [][ANext]_vars

Returned == op.kind = "result"

\* the total of the returned history with the untruncated user turn
TotalAfterHistory ==
    EstimateTokensMessages(op.system_blocks \o op.result.history \o <<op.user_msg>>)

\* the entries of h that are not the protected assistant entry
RECURSIVE Unprotected(_, _)
Unprotected(h, protect) ==
    IF h = <<>> THEN <<>>
    ELSE IF protect /= <<>> /\ Head(h).role = "assistant" /\ Head(h).content = protect
         THEN Unprotected(Tail(h), protect)
    ELSE <<Head(h)>> \o Unprotected(Tail(h), protect)

IsSuffix(a, b) == Len(a) <= Len(b) /\ a = SubSeq(b, Len(b) - Len(a) + 1, Len(b))

HoldsProtected(h, protect) ==
    \E i \in 1..Len(h) : h[i].role = "assistant" /\ h[i].content = protect

\* C12: within the budget nothing changes and the two totals agree; history
\* entries go only when the total exceeds the budget, oldest first (the
\* unprotected entries kept are a suffix of the unprotected entries of the
\* history); the user turn is truncated only when the total still exceeds the
\* budget once the history is empty or down to protected entries.
C12_TrimsInStageOrder ==
    Returned =>
        /\ op.result.tokens_before <= op.prompt_budget
              => /\ op.result.history = op.history
                 /\ op.result.user_msg = op.user_msg
                 /\ op.result.tokens_before = op.result.tokens_after
        /\ op.result.history /= op.history
              => op.result.tokens_before > op.prompt_budget
        /\ IsSuffix(Unprotected(op.result.history, op.protect_last_assistant),
                    Unprotected(op.history, op.protect_last_assistant))
        /\ op.result.user_msg /= op.user_msg
              => /\ TotalAfterHistory > op.prompt_budget
                 /\ Unprotected(op.result.history, op.protect_last_assistant) = <<>>

C12_Witness ==
    /\ Returned
    /\ Len(op.history) = 3
    /\ Len(op.result.history) = 1
    /\ op.result.user_msg = op.user_msg
    /\ op.protect_last_assistant = <<>>

\* C13: a history that holds the protected assistant entry keeps it, for every
\* budget and size; when it is the oldest entry the next oldest goes instead.
C13_ProtectedEntryKept ==
    (/\ Returned
     /\ op.protect_last_assistant /= <<>>
     /\ HoldsProtected(op.history, op.protect_last_assistant))
        => /\ HoldsProtected(op.result.history, op.protect_last_assistant)
           /\ HoldsProtected(op.result.messages, op.protect_last_assistant)
           /\ (IsProtected(op.history[1], op.protect_last_assistant)
               /\ op.result.history /= op.history)
                 => /\ op.result.history[1] = op.history[1]
                    /\ IsSuffix(Tail(op.result.history), Tail(Tail(op.history)))

C13_Witness ==
    /\ Returned
    /\ Len(op.history) = 3
    /\ IsProtected(op.history[1], op.protect_last_assistant)
    /\ Len(op.result.history) = 1
    /\ op.result.user_msg /= op.user_msg

\* C14: the total of the returned list never exceeds prompt_budget.
C14_BudgetIsHardCeiling ==
    Returned => op.result.tokens_after <= op.prompt_budget

\* ---------------------------------------------------------------------------
\* Lore: LoreService.build_lore_block with the TokenizerService of bot_app.
\* A text is modelled by its length in characters; whether a key of an entry
\* matches the corpus is an input.
\* ---------------------------------------------------------------------------
Max(a, b) == IF a >= b THEN a ELSE b

\* TokenizerService.estimate_tokens_text of a text of `chars` characters
EstimateTokensText(chars) ==
    IF chars = 0 THEN 0 ELSE Max(1, chars \div CharsPerToken)

\* TokenizerService.truncate_text_tokens: the length of the text it returns
TruncatedChars(chars, max_tokens) ==
    IF max_tokens <= 0 THEN 0
    ELSE LET approx_chars == max_tokens * CharsPerToken
         IN  IF chars <= approx_chars THEN chars
             ELSE Max(0, approx_chars - EllipsisLen) + EllipsisLen

\* the length of the block an entry renders as: "## comment\n" content "\n\n"
BlockChars(e) ==
    (IF e.comment_chars > 0 THEN 3 + e.comment_chars + 1 ELSE 0) + e.content_chars + 2

AlwaysMd(e) == e.constant /\ e.source = "md"
AlwaysJson(e) == e.constant /\ e.source = "json"
MatchedMd(e) == ~e.constant /\ e.key_matches /\ e.source = "md"
MatchedJson(e) == ~e.constant /\ e.key_matches /\ e.source = "json"

\* the injection order of build_lore_block
OrderedEntries(entries, md_priority) ==
    IF md_priority = "high"
    THEN SelectSeq(entries, AlwaysMd) \o SelectSeq(entries, AlwaysJson)
         \o SelectSeq(entries, MatchedMd) \o SelectSeq(entries, MatchedJson)
    ELSE SelectSeq(entries, AlwaysJson) \o SelectSeq(entries, AlwaysMd)
         \o SelectSeq(entries, MatchedJson) \o SelectSeq(entries, MatchedMd)

Piece(e, chars, truncated) ==
    [uid |-> e.uid, chars |-> chars, tokens |-> EstimateTokensText(chars),
     truncated |-> truncated]

RECURSIVE LorePiecesOmitFirst(_, _, _)
LorePiecesOmitFirst(ordered, tokens_used, max_tokens) ==
    IF ordered = <<>> THEN <<>>
    ELSE LET e == Head(ordered)
             block_tokens == EstimateTokensText(BlockChars(e))
         IN  IF tokens_used + block_tokens > max_tokens THEN <<>>
             ELSE <<Piece(e, BlockChars(e), FALSE)>>
                  \o LorePiecesOmitFirst(Tail(ordered), tokens_used + block_tokens,
                                         max_tokens)

RECURSIVE LorePieces(_, _, _)
\* the accumulation loop of build_lore_block
LorePieces(ordered, tokens_used, max_tokens) ==
    IF ordered = <<>> THEN <<>>
    ELSE LET e == Head(ordered)
             block_tokens == EstimateTokensText(BlockChars(e))
         IN  IF tokens_used + block_tokens > max_tokens
             THEN IF tokens_used = 0
                  THEN <<Piece(e, TruncatedChars(BlockChars(e), max_tokens), TRUE)>>
                  ELSE <<>>
             ELSE <<Piece(e, BlockChars(e), FALSE)>>
                  \o LorePieces(Tail(ordered), tokens_used + block_tokens, max_tokens)

\* LoreService.build_lore_block: None, or the pieces that follow "[Lore]\n"
BuildLoreBlock(entries, md_priority, max_tokens) ==
    LET ordered == OrderedEntries(entries, md_priority)
        pieces == LorePieces(ordered, 0, max_tokens)
    IN  IF entries = <<>> \/ ordered = <<>> \/ pieces = <<>>
        THEN [none |-> TRUE, pieces |-> <<>>]
        ELSE [none |-> FALSE, pieces |-> pieces]

\* the entries the loader of LoreService produces: Markdown files are always
\* on, JSON entries are constant or keyed
LoreEntryKinds ==
    {[uid |-> 0, source |-> "md", constant |-> TRUE, key_matches |-> FALSE,
      comment_chars |-> cc, content_chars |-> n] : cc \in {0, 5}, n \in {0, 40}}
    \cup {[uid |-> 0, source |-> "json", constant |-> c, key_matches |-> k,
           comment_chars |-> 0, content_chars |-> n] :
            c \in BOOLEAN, k \in BOOLEAN, n \in {6, 40}}

\* the entries in load order, the uid of each its position
LoreLists ==
    {[i \in 1..Len(f) |-> [f[i] EXCEPT !.uid = i]] :
        f \in UNION {[1..n -> LoreEntryKinds] : n \in 0..LMaxEntries}}

LoreBudgets == {0, 1, 3, 12, 50}

LInit ==
    /\ Constructed
    /\ \E es \in LoreLists, mp \in {"high", "low"}, mt \in LoreBudgets :
          op = [kind |-> "input", entries |-> es, md_priority |-> mp, max_tokens |-> mt,
                result |-> [none |-> TRUE, pieces |-> <<>>]]

\* a call of build_lore_block returns
BuildLore ==
    /\ op.kind = "input"
    /\ op' = [op EXCEPT
                 !.kind = "result",
                 !.result = BuildLoreBlock(op.entries, op.md_priority, op.max_tokens)]
    /\ UNCHANGED <<coreVars, loopVars, buffers, seen_sets>>

LNext == BuildLore

LoreSpec == LInit /\ [][LNext]_vars

\* an entry that is always on, or one of whose keys matches the corpus
Injected(e) == e.constant \/ e.key_matches

\* the place of an entry's class in the injection order: always-on entries
\* before matched ones, Markdown before JSON exactly when md_priority is high
ClassRank(e, md_priority) ==
    (IF e.constant THEN 0 ELSE 2)
    + (IF (e.source = "md") = (md_priority = "high") THEN 0 ELSE 1)

\* the position, in load order, of the first entry in injection order
FirstInjected(entries, md_priority) ==
    CHOOSE i \in 1..Len(entries) :
        /\ Injected(entries[i])
        /\ \A j \in 1..Len(entries) :
              Injected(entries[j])
                 => \/ ClassRank(entries[i], md_priority) < ClassRank(entries[j], md_priority)
                    \/ /\ ClassRank(entries[i], md_priority)
                            = ClassRank(entries[j], md_priority)
                       /\ i <= j

RECURSIVE SumTokens(_)
SumTokens(pieces) ==
    IF pieces = <<>> THEN 0 ELSE Head(pieces).tokens + SumTokens(Tail(pieces))

\* C15: with an always-on or matched entry and max_tokens >= 1 the block is
\* not None, opens with the first entry in injection order, whole or (when it
\* alone exceeds the budget) truncated and not empty, and the token estimates
\* of its entry blocks sum to at most max_tokens.
C15_LoreWithinBudgetNotEmpty ==
    (/\ Returned
     /\ op.max_tokens >= 1
     /\ \E i \in 1..Len(op.entries) : Injected(op.entries[i]))
        => LET first == op.entries[FirstInjected(op.entries, op.md_priority)]
               pieces == op.result.pieces
           IN  /\ ~op.result.none
               /\ pieces /= <<>>
               /\ pieces[1].uid = first.uid
               /\ pieces[1].chars > 0
               /\ pieces[1].truncated
                     = (EstimateTokensText(BlockChars(first)) > op.max_tokens)
               /\ ~pieces[1].truncated => pieces[1].chars = BlockChars(first)
               /\ \A k \in 2..Len(pieces) : ~pieces[k].truncated
               /\ SumTokens(pieces) <= op.max_tokens

C15_Witness ==
    /\ Returned
    /\ op.max_tokens >= 1
    /\ Len(op.entries) = 3
    /\ \A i \in 1..3 : Injected(op.entries[i])
    /\ Len(op.result.pieces) = 1
    /\ op.result.pieces[1].truncated
    /\ op.result.pieces[1].uid = 2

\* ---------------------------------------------------------------------------
\* Model fallback: the provider and model loops of handle_message and of
\* build_batch_reply, the auto-fallback attempt, and what reaches the user.
\* Each backend call raises, returns text, or returns an empty text.
\* ---------------------------------------------------------------------------
\* reply = None
NoneReply == "<None>"
\* the distinguished auto-fallback model
AutoModel == "openrouter/auto"
\* model_cfg['models']
ModelLists == {<<"primary/model">>, <<"primary/model", "secondary/model">>}
\* what a call of llm.generate_chat does
Outcomes == {"raise", "text", "empty"}
\* the text a model returns
TextOf(model) == <<"ok", model>>
\* `if reply:`
Truthy(reply) == reply /= NoneReply /\ reply /= ""

FInit ==
    /\ Constructed
    /\ \E path \in {"immediate", "batch"}, np \in 1..2, ms \in ModelLists,
          aa \in BOOLEAN :
          \E cs \in SUBSET (1..np) :
          op = [kind |-> "fallback", path |-> path, providers |-> np, compat |-> cs,
                models |-> ms,
                allow_auto |-> aa, phase |-> "models", p_index |-> 1, idx |-> 1,
                reply |-> NoneReply, attempts |-> <<>>, error_logged |-> FALSE,
                delivered |-> "none"]

\* the length of _model_iter: build_batch_reply keeps the first model only for
\* a provider that is an OpenAICompatClient; handle_message walks the whole list
ModelIterLen(o) ==
    IF o.path = "batch" /\ o.p_index \in o.compat /\ o.models # <<>> THEN 1
    ELSE Len(o.models)

\* where the loops stand after a call at provider p, model i left `reply`
AfterCall(o, reply, raised) ==
    LET more_models == raised /\ o.idx < ModelIterLen(o)
        more_providers == ~more_models /\ ~Truthy(reply) /\ o.p_index < o.providers
    IN  IF more_models THEN [o EXCEPT !.idx = @ + 1]
        ELSE IF more_providers THEN [o EXCEPT !.p_index = @ + 1, !.idx = 1]
        ELSE [o EXCEPT !.phase = IF reply = NoneReply /\ o.allow_auto
                                  THEN "auto" ELSE "finish"]

\* one pass of the model loop: llm.generate_chat for the current provider and
\* model, and the bookkeeping up to the next call
FCallModel(outcome) ==
    LET model == op.models[op.idx]
        reply == IF outcome = "raise" THEN NoneReply
                 ELSE IF outcome = "text" THEN TextOf(model) ELSE ""
        logs == outcome = "raise" \/ (outcome = "empty" /\ op.path = "immediate")
        o1 == [op EXCEPT !.reply = reply,
                         !.attempts = Append(@, [provider |-> op.p_index,
                                                 model |-> model,
                                                 outcome |-> outcome]),
                         !.error_logged = @ \/ logs]
    IN  /\ op.kind = "fallback"
        /\ op.phase = "models"
        /\ op' = AfterCall(o1, reply, outcome = "raise")
        /\ UNCHANGED <<coreVars, loopVars, buffers, seen_sets>>

\* the attempt against openrouter/auto
FCallAuto(outcome) ==
    /\ op.kind = "fallback"
    /\ op.phase = "auto"
    /\ op' = [op EXCEPT
                 !.reply = IF outcome = "raise" THEN @
                           ELSE IF outcome = "text" THEN TextOf(AutoModel) ELSE "",
                 !.attempts = Append(@, [provider |-> 0, model |-> AutoModel,
                                         outcome |-> outcome]),
                 !.error_logged = @ \/ op.path = "immediate" \/ outcome = "raise",
                 !.phase = "finish"]
    /\ UNCHANGED <<coreVars, loopVars, buffers, seen_sets>>

\* the caller's use of the reply: handle_message substitutes a placeholder and
\* logs an error; process_batches_loop sends only a non-empty reply
FFinish ==
    /\ op.kind = "fallback"
    /\ op.phase = "finish"
    /\ op' = [op EXCEPT
                 !.phase = "done",
                 !.error_logged = @ \/ (op.path = "immediate" /\ ~Truthy(op.reply)),
                 !.delivered = IF Truthy(op.reply) THEN "reply"
                               ELSE IF op.path = "immediate" THEN "placeholder"
                               ELSE "nothing"]
    /\ UNCHANGED <<coreVars, loopVars, buffers, seen_sets>>

FNext ==
    \/ \E outcome \in Outcomes : FCallModel(outcome)
    \/ \E outcome \in Outcomes : FCallAuto(outcome)
    \/ FFinish

FallbackSpec == FInit /\ [][FNext]_vars

\* the positions of the attempts against configured models and against auto
ConfiguredAttempts == {k \in 1..Len(op.attempts) : op.attempts[k].model /= AutoModel}
AutoAttempts == {k \in 1..Len(op.attempts) : op.attempts[k].model = AutoModel}

\* the place of a model in the configured list
ModelIndex(model) == CHOOSE i \in 1..Len(op.models) : op.models[i] = model

\* C16: configured models are attempted in list order, each only after every
\* earlier model raised, and no model call follows the first call that returns
\* without raising; with two models, the first raising and the second
\* returning text, the reply is the second model's text after two attempts.
C16_FallbackChain ==
    /\ \A k \in 1..Len(op.attempts) :
          \A j \in 1..(k - 1) : op.attempts[j].outcome = "raise"
    /\ \A k \in ConfiguredAttempts :
          \A i \in 1..(ModelIndex(op.attempts[k].model) - 1) :
              \E j \in 1..(k - 1) :
                  op.attempts[j].model = op.models[i] /\ op.attempts[j].outcome = "raise"
    /\ (/\ op.phase = "done"
        /\ Len(op.models) = 2
        /\ Len(op.attempts) >= 2
        /\ op.attempts[1].outcome = "raise"
        /\ op.attempts[2].outcome = "text")
          => /\ Len(op.attempts) = 2
             /\ op.reply = TextOf(op.models[2])
             /\ op.delivered = "reply"

\* C17: openrouter/auto is attempted once exactly when every configured model
\* attempt raised and allow_auto_fallback is set; never after a configured
\* model call returned, never with the flag off.
C17_AutoFallbackExactly ==
    op.phase \in {"finish", "done"}
        => /\ Cardinality(AutoAttempts) <= 1
           /\ (AutoAttempts /= {})
                 = (/\ op.allow_auto
                    /\ \A k \in ConfiguredAttempts : op.attempts[k].outcome = "raise")

\* C18: when no attempt yields reply text, a placeholder reaches the user and
\* the failure is logged at error severity, on both paths.
C18_TotalFailureNotSilent ==
    (/\ op.phase = "done"
     /\ \A k \in 1..Len(op.attempts) : op.attempts[k].outcome /= "text")
        => /\ op.delivered = "placeholder"
           /\ op.error_logged

\* ---------------------------------------------------------------------------
\* ContextualMultiBackendClient._select: the provider pool of a context.
\* ---------------------------------------------------------------------------
SMaxProviders == 2

\* a pool of n providers, each named after its pool
Pool(name, n) == [i \in 1..n |-> [pool |-> name, index |-> i]]

\* _select(context_fields)
Select(cf, pools) ==
    IF cf.has_images /\ pools.vision /= <<>> THEN pools.vision
    ELSE IF cf.web /\ pools.web /= <<>> THEN pools.web
    ELSE IF cf.nsfw /\ pools.nsfw /= <<>> THEN pools.nsfw
    ELSE pools.normal

SInit ==
    /\ Constructed
    /\ \E hi \in BOOLEAN, w \in BOOLEAN, ns \in BOOLEAN,
          nv \in 0..SMaxProviders, nw \in 0..SMaxProviders,
          nn \in 0..SMaxProviders, nr \in 0..SMaxProviders :
          op = [kind |-> "context",
                cf |-> [has_images |-> hi, web |-> w, nsfw |-> ns],
                pools |-> [vision |-> Pool("vision", nv), web |-> Pool("web", nw),
                           nsfw |-> Pool("nsfw", nn), normal |-> Pool("normal", nr)],
                providers |-> <<>>]

\* providers_for_context(context_fields)
ProvidersForContext ==
    /\ op.kind = "context"
    /\ op' = [op EXCEPT !.kind = "selected", !.providers = Select(op.cf, op.pools)]
    /\ UNCHANGED <<coreVars, loopVars, buffers, seen_sets>>

SNext == ProvidersForContext

SelectSpec == SInit /\ [][SNext]_vars

\* C19: the pool used is the vision pool if has_images, else the web pool if
\* web, else the nsfw pool if nsfw, else the normal pool; and when the pool
\* chosen by that precedence is empty, the normal pool is used.
C19_PoolByPrecedence ==
    op.kind = "selected" =>
        LET chosen == IF op.cf.has_images THEN op.pools.vision
                      ELSE IF op.cf.web THEN op.pools.web
                      ELSE IF op.cf.nsfw THEN op.pools.nsfw
                      ELSE op.pools.normal
        IN  op.providers = IF chosen = <<>> THEN op.pools.normal ELSE chosen

\* ---------------------------------------------------------------------------
\* Conversation mode of ConversationMemory on its own: windows are started,
\* checked and consumed while the clock advances.
\* ---------------------------------------------------------------------------
CMaxTick == 5
CMaxBudget == 2

\* the variables conversation mode leaves alone
convRest ==
    <<cfg, store, last_reply, replies_timestamps, call, responded_to, buffers, seen_sets,
      mq, pending, batch_loop, mention_loop, prev_conv_active, next_id, handled,
      last_sent, on_replied_log, window_log>>

\* history: no call made yet, and no window started for a channel
NoConvCall == [name |-> "none", channel_id |-> "c1", active |-> FALSE, at |-> NoneT,
               absent |-> TRUE, budget_before |-> NoneT]
NoConvWindow == [started |-> FALSE, until |-> NoneT, budget |-> 0, granted |-> 0,
                 consumed |-> 0]

CInit ==
    /\ Constructed
    /\ op = [kind |-> "conv", windows |-> [ch \in Channels |-> NoConvWindow],
             last |-> NoConvCall]

CTick ==
    /\ tick < CMaxTick
    /\ tick < Len(Times)
    /\ tick' = tick + 1
    /\ UNCHANGED <<conv_until, conv_budget, op, convRest>>

\* start_conversation_mode(channel_id, window_seconds, max_messages)
StartConversationMode(ch, max_messages) ==
    /\ conv_until' = [conv_until EXCEPT ![ch] = now + CmWindowSeconds]
    /\ conv_budget' = [conv_budget EXCEPT ![ch] = max_messages]
    /\ op' = [op EXCEPT
                 !.windows[ch] = [started |-> TRUE, until |-> now + CmWindowSeconds,
                                  budget |-> max_messages, granted |-> max_messages,
                                  consumed |-> 0],
                 !.last = [name |-> "start", channel_id |-> ch, active |-> FALSE,
                           at |-> now, absent |-> conv_until[ch] = NoneT,
                           budget_before |-> conv_budget[ch]]]
    /\ UNCHANGED <<tick, convRest>>

\* conversation_mode_active(channel_id)
ConversationModeActive(ch) ==
    LET c == ConvCheck(conv_until[ch], conv_budget[ch], now)
    IN  /\ conv_until' = [conv_until EXCEPT ![ch] = c.until]
        /\ conv_budget' = [conv_budget EXCEPT ![ch] = c.budget]
        /\ op' = [op EXCEPT
                     !.last = [name |-> "check", channel_id |-> ch, active |-> c.active,
                               at |-> now, absent |-> conv_until[ch] = NoneT,
                               budget_before |-> conv_budget[ch]]]
        /\ UNCHANGED <<tick, convRest>>

\* consume_conversation_message(channel_id)
ConsumeConversationMessage(ch) ==
    LET c == ConvConsume(conv_until[ch], conv_budget[ch], now)
    IN  /\ conv_until' = [conv_until EXCEPT ![ch] = c.until]
        /\ conv_budget' = [conv_budget EXCEPT ![ch] = c.budget]
        /\ op' = [op EXCEPT
                     !.windows[ch].budget = IF c.ok THEN c.budget ELSE @,
                     !.windows[ch].consumed = IF c.ok THEN @ + 1 ELSE @,
                     !.last = [name |-> "consume", channel_id |-> ch, active |-> c.ok,
                               at |-> now, absent |-> conv_until[ch] = NoneT,
                               budget_before |-> conv_budget[ch]]]
        /\ UNCHANGED <<tick, convRest>>

CNext ==
    \/ CTick
    \/ \E ch \in Channels, max_messages \in 0..CMaxBudget :
          StartConversationMode(ch, max_messages)
    \/ \E ch \in Channels : ConversationModeActive(ch)
    \/ \E ch \in Channels : ConsumeConversationMessage(ch)

ConvSpec == CInit /\ [][CNext]_vars

\* C20: conversation_mode_active returns true exactly when a window was
\* started, the time of the check is not past its expiry and its remaining
\* budget is > 0; a check that returns false leaves the channel without expiry
\* and budget entries; a check that finds no entries returns false.
C20_LazyExpiry ==
    (op.kind = "conv" /\ op.last.name = "check") =>
        LET ch == op.last.channel_id
            w == op.windows[ch]
        IN  /\ op.last.active = (w.started /\ op.last.at <= w.until /\ w.budget > 0)
            /\ ~op.last.active => (conv_until[ch] = NoneT /\ conv_budget[ch] = NoneT)
            /\ op.last.absent => ~op.last.active

\* the first check of a started window made past its expiry, with budget left
C20_Witness ==
    /\ op.kind = "conv"
    /\ op.last.name = "check"
    /\ ~op.last.absent
    /\ ~op.last.active
    /\ op.windows[op.last.channel_id].budget > 0
    /\ op.last.at > op.windows[op.last.channel_id].until

\* C21: consume_conversation_message returns false without decrementing when
\* the window is inactive or its budget is used up (the only change it makes
\* then is the lazy removal of the channel's expiry and budget entries);
\* otherwise it decrements the budget by exactly one and returns true; the
\* budget is never negative, and a window started with N grants at most N
\* consumes before the next start.
C21_ConsumeWithinBudget ==
    op.kind = "conv" =>
        /\ op.last.name = "consume" =>
              LET ch == op.last.channel_id
                  w == op.windows[ch]
                  live == ~op.last.absent /\ op.last.at <= w.until
                          /\ op.last.budget_before > 0
              IN  /\ op.last.active = live
                  /\ op.last.active => conv_budget[ch] = op.last.budget_before - 1
                  /\ ~op.last.active => conv_budget[ch] \in {op.last.budget_before, NoneT}
        /\ \A ch \in Channels :
              /\ conv_budget[ch] = NoneT \/ conv_budget[ch] >= 0
              /\ op.windows[ch].consumed <= op.windows[ch].granted

\* a consume refused because the window's whole budget was consumed
C21_Witness ==
    /\ op.kind = "conv"
    /\ op.last.name = "consume"
    /\ ~op.last.active
    /\ ~op.last.absent
    /\ op.last.budget_before = 0
    /\ op.windows[op.last.channel_id].granted = CMaxBudget
    /\ op.windows[op.last.channel_id].consumed = CMaxBudget

\* C21 as stated: a consume that returns false changes nothing.
C21_RefusedConsumeChangesNothing ==
    [][\A ch \in Channels :
          (ConsumeConversationMessage(ch) /\ ~op'.last.active)
              => UNCHANGED <<conv_until, conv_budget>>]_vars

\* ---------------------------------------------------------------------------
\* Duplicate delivery: the platform delivers again a message the bot has
\* already answered, beside first deliveries, replies and the clock.
\* ---------------------------------------------------------------------------
DMaxStore == 3
DMaxMessages == 2

\* a reply to another user's message, outside the allow-listed channels
ReplyToUser(mid, t) == Event("c2", "u1", mid, Hello, FALSE, TRUE, FALSE, t)

\* a first delivery while few messages have been delivered
DArrive ==
    /\ next_id <= DMaxMessages
    /\ \E ev \in RouterEvents(next_id, now) \cup {ReplyToUser(next_id, now)},
          roll \in RouterRolls :
          HandleMessage(ev, roll, FALSE)
    /\ next_id' = next_id + 1
    /\ UNCHANGED <<batch_loop, mention_loop>>

\* handle_message is called with a message whose id on_replied has added to
\* the channel's responded_to set
Redeliver ==
    /\ \E ch \in Channels, roll \in RouterRolls :
          \E i \in 1..Len(store[ch]) :
              /\ store[ch][i].message_id \in responded_to[ch]
              /\ Len(store[ch]) <= DMaxStore
              /\ HandleMessage(store[ch][i], roll, FALSE)
    /\ UNCHANGED <<batch_loop, mention_loop, next_id>>

DNext ==
    \/ RTick
    \/ DArrive
    \/ \E p \in pending : CompleteReply(p)
    \/ Redeliver

DupSpec == RInit /\ [][DNext]_vars

\* C22: delivering again a message whose id is in the channel's responded_to
\* set starts no second reply and leaves the last-reply time, the anti-spam
\* count and the conversation window of every channel as they were.
C22_DuplicateDeliveryNoOp ==
    [][Redeliver =>
          /\ pending' = pending
          /\ last_reply' = last_reply
          /\ \A ch \in Channels :
                /\ Len(ResponsesInWindow(replies_timestamps'[ch], cfg.window_seconds, now))
                      = Len(ResponsesInWindow(replies_timestamps[ch], cfg.window_seconds,
                                              now))
                /\ ConvCheck(conv_until'[ch], conv_budget'[ch], now)
                      = ConvCheck(conv_until[ch], conv_budget[ch], now)]_vars

\* C23: every inbound-event record of the memory comes from a direct trigger
\* (mention, alias match or reply to the bot) or from an allow-listed channel.
C23_OnlyTriggersOrAllowedRecorded ==
    \A ch \in Channels :
        \A i \in 1..Len(store[ch]) :
            store[ch][i].author_id /= "self"
                => RouterIsDirect(cfg, store[ch][i]) \/ ChannelAllowed(cfg, ch)

\* ---------------------------------------------------------------------------
\* The semaphore of one backend instance: generate_chat calls enter
\* `async with self._sem`, run their tries and leave.
\* ---------------------------------------------------------------------------
SemMaxCalls == 3
SemMaxConcurrency == 2

SemCalls == 1..SemMaxCalls

SemLockedNever(value, waiters) == FALSE

\* Semaphore.locked(): no slot can be taken at once
SemLocked(value, waiters) == value = 0 \/ waiters /= <<>>

SemInit ==
    /\ Constructed
    /\ \E client \in {"openrouter", "openai_compat"}, c \in 1..SemMaxConcurrency :
          op = [kind |-> "sem", client |-> client, concurrency |-> c, value |-> c,
                waiters |-> <<>>, pc |-> [id \in SemCalls |-> "idle"]]

\* generate_chat reaches `async with self._sem`: it takes a slot or waits
SemEnter(id) ==
    /\ op.kind = "sem"
    /\ op.pc[id] = "idle"
    /\ op' = IF SemLocked(op.value, op.waiters)
             THEN [op EXCEPT !.waiters = Append(@, id), !.pc[id] = "waiting"]
             ELSE [op EXCEPT !.value = @ - 1, !.pc[id] = "inflight"]
    /\ UNCHANGED <<coreVars, loopVars, buffers, seen_sets>>

\* the call returns or raises and leaves the `async with` block: release()
\* hands the slot to the first waiter, or gives it back
SemLeave(id) ==
    /\ op.kind = "sem"
    /\ op.pc[id] = "inflight"
    /\ op' = IF op.waiters /= <<>>
             THEN [op EXCEPT !.waiters = Tail(@), !.pc[id] = "done",
                             !.pc[Head(op.waiters)] = "inflight"]
             ELSE [op EXCEPT !.value = @ + 1, !.pc[id] = "done"]
    /\ UNCHANGED <<coreVars, loopVars, buffers, seen_sets>>

SemNext ==
    \/ \E id \in SemCalls : SemEnter(id)
    \/ \E id \in SemCalls : SemLeave(id)

\* in-flight calls terminate
SemFairSpec ==
    SemInit /\ [][SemNext]_vars /\ WF_vars(\E id \in SemCalls : SemLeave(id))

\* the calls past the semaphore
InFlight == {id \in SemCalls : op.pc[id] = "inflight"}

\* C24: at no time are more than `concurrency` generate_chat calls of a
\* backend instance in flight; further calls wait, and every waiting call
\* eventually obtains a slot given that in-flight calls terminate.
C24_ConcurrencyBounded ==
    /\ [](/\ Cardinality(InFlight) <= op.concurrency
          /\ op.value >= 0
          /\ \A id \in SemCalls :
                op.pc[id] = "waiting" => Cardinality(InFlight) = op.concurrency)
    /\ \A id \in SemCalls : (op.pc[id] = "waiting") ~> (op.pc[id] = "inflight")

\* a call waits while `concurrency` calls, more than one, are in flight
C24_Witness ==
    /\ op.kind = "sem"
    /\ op.concurrency = SemMaxConcurrency
    /\ Cardinality(InFlight) = SemMaxConcurrency
    /\ op.waiters /= <<>>

\* ---------------------------------------------------------------------------
\* The retry loop of one generate_chat call, for either backend kind.
\* ---------------------------------------------------------------------------
RetryMaxAttempts == 2

\* what one POST does: a response, a timeout, or an HTTP error status
PostOutcomes == {"ok", "timeout", "400", "404", "429", "501", "503"}

\* the status codes OpenRouterClient retries
RetryableCodes == {"429", "500", "502", "503", "504"}

\* the status codes on which OpenAICompatClient falls back to /completions
MissingEndpointCodes == {"404", "405"}

RetryInit ==
    /\ Constructed
    /\ \E client \in {"openrouter", "openai_compat"}, r \in 0..RetryMaxAttempts,
          im \in BOOLEAN :
          op = [kind |-> "retry", client |-> client, retry_attempts |-> r,
                includes_images |-> im, phase |-> "trying", attempts |-> 0,
                tries |-> <<>>]

\* a failed try: back off and go round the loop, or give up
RetryOrRaise(o) ==
    [o EXCEPT !.phase = IF o.attempts < 1 + o.retry_attempts THEN "trying" ELSE "raised"]

\* one pass of OpenRouterClient.generate_chat's while loop
OpenRouterTry(o, outcome) ==
    IF outcome = "ok" THEN [o EXCEPT !.phase = "returned"]
    ELSE IF outcome = "timeout" \/ outcome \in RetryableCodes THEN RetryOrRaise(o)
    ELSE [o EXCEPT !.phase = "raised"]

\* one pass of OpenAICompatClient.generate_chat's while loop; comp_ok is the
\* fate of the POST to /completions
OpenAICompatTry(o, outcome, comp_ok) ==
    IF outcome = "ok" THEN [o EXCEPT !.phase = "returned"]
    ELSE IF outcome \in MissingEndpointCodes
         THEN [o EXCEPT !.phase = IF ~o.includes_images /\ comp_ok
                                  THEN "returned" ELSE "raised"]
    ELSE RetryOrRaise(o)

RetryTry(outcome, comp_ok) ==
    LET o1 == [op EXCEPT !.attempts = @ + 1, !.tries = Append(@, outcome)]
    IN  /\ op.kind = "retry"
        /\ op.phase = "trying"
        /\ op' = IF op.client = "openrouter" THEN OpenRouterTry(o1, outcome)
                 ELSE OpenAICompatTry(o1, outcome, comp_ok)
        /\ UNCHANGED <<coreVars, loopVars, buffers, seen_sets>>

RetryNext == \E outcome \in PostOutcomes, comp_ok \in BOOLEAN : RetryTry(outcome, comp_ok)

RetrySpec == RetryInit /\ [][RetryNext]_vars

\* C25: a generate_chat call makes at most 1 + retry_attempts tries; a
\* transient failure (5xx, 429, timeout) is retried until that bound and then
\* surfaces as an error; any other HTTP error ends the call at once with an
\* error and no further try, for both backend kinds.
C25_RetryBoundAndHardErrors ==
    op.kind = "retry" =>
        /\ op.attempts <= 1 + op.retry_attempts
        /\ \A k \in 1..Len(op.tries) :
              LET transient == op.tries[k] \in {"timeout", "429", "501", "503"}
                  hard == op.tries[k] \in {"400", "404"}
                  last == k = Len(op.tries)
              IN  /\ (transient /\ last /\ op.phase = "raised")
                        => op.attempts = 1 + op.retry_attempts
                  /\ (transient /\ last /\ op.attempts < 1 + op.retry_attempts)
                        => op.phase = "trying"
                  /\ hard => last /\ op.phase = "raised"

\* ---------------------------------------------------------------------------
\* The two periodic loops of bot_app: in each tick the loop walks the channels
\* that have pending work; a step of the work on a channel may raise.
\* ---------------------------------------------------------------------------
LoopMaxTicks == 3

\* queue.channels() / batcher.channels(): the channels with pending work, in
\* dictionary order
WorkLists == {<<>>, <<"c1">>, <<"c2">>, <<"c1", "c2">>, <<"c2", "c1">>}

\* what the work on one channel does: all of it succeeds, or fetching the
\* channel, building the reply (handle_message / build_batch_reply), or
\* sending it raises
WorkOutcomes == {"ok", "fetch-raises", "build-raises", "send-raises"}

LoopInit ==
    /\ Constructed
    /\ \E loop \in {"mentions", "batches"}, todo \in WorkLists :
          op = [kind |-> "loop", loop |-> loop, ticks |-> 1, todo |-> todo,
                visited |-> <<>>, skipped |-> {}]

\* the body of the for loop for the next channel: process_mentions_loop wraps
\* the whole of it in try/except; process_batches_loop wraps the fetch and the
\* send, so a raise of build_batch_reply reaches the handler around the for loop
LoopVisit(outcome) ==
    LET ch == Head(op.todo)
        aborts == op.loop = "batches" /\ outcome = "build-raises"
        rest == Tail(op.todo)
    IN  /\ op.kind = "loop"
        /\ op.todo /= <<>>
        /\ op' = [op EXCEPT
                     !.visited = Append(@, [channel_id |-> ch, outcome |-> outcome]),
                     !.todo = IF aborts THEN <<>> ELSE rest,
                     !.skipped = IF aborts THEN {rest[i] : i \in 1..Len(rest)} ELSE {}]
        /\ UNCHANGED <<coreVars, loopVars, buffers, seen_sets>>

\* the loop sleeps and starts its next tick
LoopSleep(todo) ==
    /\ op.kind = "loop"
    /\ op.todo = <<>>
    /\ op.ticks < LoopMaxTicks
    /\ op' = [op EXCEPT !.ticks = @ + 1, !.todo = todo, !.visited = <<>>,
                        !.skipped = {}]
    /\ UNCHANGED <<coreVars, loopVars, buffers, seen_sets>>

LoopNext ==
    \/ \E outcome \in WorkOutcomes : LoopVisit(outcome)
    \/ \E todo \in WorkLists : LoopSleep(todo)

LoopSpec == LoopInit /\ [][LoopNext]_vars

\* C26: an exception raised while a tick of either loop processes one channel
\* keeps no other channel with pending work from being processed in that tick.
C26_FailureIsolatedPerChannel ==
    op.kind = "loop" => op.skipped = {}

\* ---------------------------------------------------------------------------
\* MentionsQueue on its own: mentions are enqueued and popped per channel.
\* ---------------------------------------------------------------------------
QMaxItems == 4
QSmallMax == 2
QMaxMessageId == 2

QueueEnqueueUnbounded(dq, item, max) == [q |-> Append(dq, item), ok |-> TRUE]

\* MentionsQueue.enqueue on the channel's deque: the deque afterwards and the
\* result
QueueEnqueue(dq, item, max) ==
    IF Len(dq) >= max THEN [q |-> dq, ok |-> FALSE]
    ELSE [q |-> Append(dq, item), ok |-> TRUE]

\* MentionsQueue.pop: the deque afterwards and the item returned, if any
QueuePop(dq) ==
    IF dq /= <<>> THEN [q |-> Tail(dq), items |-> <<Head(dq)>>]
    ELSE [q |-> dq, items |-> <<>>]

\* MentionsQueue(max_per_channel); `serial` numbers the enqueue calls and
\* `popped` lists, per channel, the items pop has returned
QInit ==
    /\ Constructed
    /\ \E max \in {QSmallMax, MaxPerChannel} :
          op = [kind |-> "queue", max |-> max, q |-> [ch \in Channels |-> <<>>],
                serial |-> 1, popped |-> [ch \in Channels |-> <<>>],
                last |-> [name |-> "none", channel_id |-> "c1", ok |-> FALSE,
                          before |-> <<>>]]

QEnqueue(ch, mid) ==
    LET item == [channel_id |-> ch, message_id |-> mid, serial |-> op.serial]
        r == QueueEnqueue(op.q[ch], item, op.max)
    IN  /\ op.kind = "queue"
        /\ op.serial <= QMaxItems
        /\ op' = [op EXCEPT !.q[ch] = r.q, !.serial = @ + 1,
                            !.last = [name |-> "enqueue", channel_id |-> ch,
                                      ok |-> r.ok, before |-> op.q[ch]]]
        /\ UNCHANGED <<coreVars, loopVars, buffers, seen_sets>>

QPop(ch) ==
    LET r == QueuePop(op.q[ch])
    IN  /\ op.kind = "queue"
        /\ op' = [op EXCEPT !.q[ch] = r.q, !.popped[ch] = @ \o r.items,
                            !.last = [name |-> "pop", channel_id |-> ch,
                                      ok |-> r.items /= <<>>, before |-> op.q[ch]]]
        /\ UNCHANGED <<coreVars, loopVars, buffers, seen_sets>>

QNext ==
    \/ \E ch \in Channels, mid \in 1..QMaxMessageId : QEnqueue(ch, mid)
    \/ \E ch \in Channels : QPop(ch)

QueueSpec == QInit /\ [][QNext]_vars

\* C27: a channel's queue never holds more than max_per_channel items; enqueue
\* on a full queue returns False and leaves the queue as it was; pop returns
\* the items in enqueue order, each at most once (what was popped followed by
\* what is queued is in strictly increasing enqueue order).
C27_BoundedFifoPoppedOnce ==
    op.kind = "queue" =>
        /\ \A ch \in Channels :
              LET all == op.popped[ch] \o op.q[ch]
              IN  /\ Len(op.q[ch]) <= op.max
                  /\ \A i \in 1..Len(all) : \A j \in 1..Len(all) :
                        i < j => all[i].serial < all[j].serial
        /\ op.last.name = "enqueue" =>
              /\ op.last.ok = (Len(op.last.before) < op.max)
              /\ ~op.last.ok => op.q[op.last.channel_id] = op.last.before
        /\ op.last.name = "pop" =>
              /\ op.last.ok = (op.last.before /= <<>>)
              /\ op.last.ok =>
                    LET got == op.popped[op.last.channel_id]
                    IN  got[Len(got)] = Head(op.last.before)

\* an enqueue refused by a full queue, after a pop from that channel
C27_Witness ==
    /\ op.kind = "queue"
    /\ op.last.name = "enqueue"
    /\ ~op.last.ok
    /\ Len(op.q[op.last.channel_id]) = QSmallMax
    /\ op.popped[op.last.channel_id] /= <<>>

\* C28: an allowed direct trigger has reason 'mention-alias' exactly when the
\* alias matched and the event is neither an @-mention nor a reply to the bot;
\* every other direct trigger has reason 'mention'.
C28_AliasReasonOnlyForPureAlias ==
    (Decided /\ Dec.allow /\ Dec.reason \in {"mention", "mention-alias"})
        => (Dec.reason = "mention-alias")
              = (/\ NameMatch(cfg, Ev.content)
                 /\ ~Ev.is_mentioned
                 /\ ~Ev.is_reply_to_bot)

\* C29: messages_since_last_reply of a channel is the number of non-bot
\* records of its store created after its last reply (all non-bot records
\* when no reply was sent), also when records were appended out of timestamp
\* order.
C29_CountsRecordsAfterLastReply ==
    \A ch \in Channels :
        MessagesSinceLastReply(store[ch], last_reply[ch])
            = Cardinality({i \in 1..Len(store[ch]) :
                              /\ ~store[ch][i].is_bot
                              /\ (last_reply[ch] = NoneT
                                  \/ store[ch][i].created_at > last_reply[ch])})

\* C30: every conversation-mode reply sent in a channel, immediate or batched,
\* adds one entry to the channel's anti-spam deque; with affects_cooldown off
\* it does so while leaving the channel's last-reply time as it was.
C30_ConversationRepliesCounted ==
    [][/\ (BatchSend /\ batch_loop.active)
             => replies_timestamps'[batch_loop.channel_id]
                   = PushReply(replies_timestamps[batch_loop.channel_id], now)
       /\ \A p \in pending :
             (CompleteReply(p) /\ p.decision.reason = "conversation-mode")
                 => /\ replies_timestamps'[p.event.channel_id]
                          = PushReply(replies_timestamps[p.event.channel_id], now)
                    /\ ~cfg.cm_affects_cooldown => last_reply' = last_reply]_vars

\* ------------------------------------------------------------------
\* ConversationBatcher.drain, and the buffer and id set between calls
\* ------------------------------------------------------------------

Min(a, b) == IF a < b THEN a ELSE b

\* the ids of the events of a sequence
IdsOf(evs) == {evs[i].message_id : i \in 1..Len(evs)}

\* the drained events are the first n of the buffer before the call, in order,
\* the rest stays in order, and each drained id can be added again
DrainTook(n) ==
    /\ op.out = SubSeq(op.before, 1, n)
    /\ buffers[op.channel_id] = SubSeq(op.before, n + 1, Len(op.before))
    /\ \A i \in 1..Len(op.out) :
          BatcherAddMax(buffers[op.channel_id], seen_sets[op.channel_id],
                        op.out[i], op.max_buffer).added

\* C31: drain(channel, limit) removes and returns the min(max(1, limit), pending)
\* oldest events of the channel in arrival order, leaves the others in order,
\* and releases the drained ids: an add of a drained id then returns True.
C31_DrainTakesOldest ==
    op.kind = "drain" => DrainTook(Min(IF op.limit > 1 THEN op.limit ELSE 1, Len(op.before)))

\* a drain with a limit below the number pending took the two oldest and left the rest
C31_Witness ==
    /\ op.kind = "drain"
    /\ op.limit = BSmallLimit
    /\ Len(op.before) > BSmallLimit
    /\ Len(op.out) = BSmallLimit
    /\ buffers[op.channel_id] # <<>>

\* C31 as stated: the number of drained events is min(limit, pending)
C31_DrainTakesMinOfLimit ==
    op.kind = "drain" => DrainTook(Min(op.limit, Len(op.before)))

\* ConversationBatcher.channels: the channels whose buffer is not empty
BatcherChannels == {ch \in Channels : buffers[ch] # <<>>}

\* C32: after any sequence of add, drain and clear each channel's buffer holds
\* at most max_buffer_per_channel events, the id set of the channel is the set
\* of the ids of its buffered events (an evicted, drained or cleared id is not
\* reported as seen), and channels() lists the channels with pending events.
C32_BufferBoundedIdsExact ==
    /\ \A ch \in Channels :
          /\ Len(buffers[ch]) <= op.max_buffer
          /\ seen_sets[ch] = IdsOf(buffers[ch])
    /\ (op.kind = "add" /\ op.result /\ Len(op.before) >= op.max_buffer)
          => buffers[op.channel_id] = Append(Tail(op.before), op.event)
    /\ BatcherChannels = {ch \in Channels : seen_sets[ch] # {}}

\* an add into a full buffer dropped the oldest event and its id
C32_Witness ==
    /\ op.kind = "add"
    /\ op.result
    /\ Len(op.before) = op.max_buffer
    /\ Len(buffers[op.channel_id]) = op.max_buffer
    /\ op.before[1].message_id \notin seen_sets[op.channel_id]
    /\ BatcherChannels = Channels

\* ------------------------------------------------------------------
\* process_mentions_loop and the mentions queue
\* ------------------------------------------------------------------

\* a user mentions the bot in the allow-listed channel
MentionEvent(mid, t) == Event("c1", "u1", mid, Hello, TRUE, FALSE, FALSE, t)

MInit ==
    /\ cfg = [BaseConfig EXCEPT !.cm_enabled = FALSE]
    /\ tick = 1
    /\ store = [ch \in Channels |-> <<>>]
    /\ last_reply = [ch \in Channels |-> NoneT]
    /\ replies_timestamps = [ch \in Channels |-> <<>>]
    /\ call = IdleCall
    /\ RouterIdle

\* a mention arrives from the platform
MArrive ==
    /\ next_id <= MMaxMessages
    /\ \E roll \in RouterRolls : HandleMessage(MentionEvent(next_id, now), roll, FALSE)
    /\ next_id' = next_id + 1
    /\ UNCHANGED <<batch_loop, mention_loop>>

\* fetch_channel or fetch_message raises: the loop swallows the exception and
\* the item it popped is gone
MentionsFetchFails ==
    /\ mention_loop.pc = "fetching"
    /\ mention_loop' = NoLoop
    /\ UNCHANGED <<op, cfg, tick, store, last_reply, replies_timestamps, call, conv_until,
                   conv_budget, responded_to, buffers, seen_sets, mq, pending, batch_loop,
                   prev_conv_active, next_id, handled, last_sent, on_replied_log,
                   window_log>>

MNext ==
    \/ RTick
    \/ MArrive
    \/ \E p \in pending : CompleteReply(p)
    \/ \E ch \in Channels : MentionsPoll(ch)
    \/ MentionsDeliver
    \/ MentionsFetchFails

MentionSpec == MInit /\ [][MNext]_vars

\* the channel's anti-spam window has room by the count of responses_in_window
WindowHasRoom(ch) ==
    Len(ResponsesInWindow(replies_timestamps[ch], cfg.window_seconds, now)) < cfg.max_responses

\* C33: a queued mention is handed to handle_message only when the channel's
\* anti-spam window has room at the time the reply decision is made.
C33_RedeliveredOnlyWithRoom ==
    [][(mention_loop.pc = "fetching" /\ mention_loop'.pc # "fetching")
          => WindowHasRoom(mention_loop.channel_id)]_vars

\* ------------------------------------------------------------------
\* process_batches_loop
\* ------------------------------------------------------------------

\* C34: the batch-flush loop builds a batch reply only for a channel that is
\* in conversation mode at that tick, from at most batch_limit drained events,
\* and the events it drained are the ones it passes to build_batch_reply.
C34_BatchOnlyInConversationMode ==
    batch_loop.pc = "building"
       => /\ batch_loop.active
          /\ batch_loop.events # <<>>
          /\ Len(batch_loop.events) <= BatchLimit

\* ------------------------------------------------------------------
\* the start of a conversation window after a reply
\* ------------------------------------------------------------------

\* the step starts a conversation window in the channel
StartsWindow(ch) ==
    /\ conv_until'[ch] # conv_until[ch]
    /\ conv_until'[ch] # NoneT

\* C35: a conversation window is started only after a reply to a direct
\* trigger; a reply with reason 'general' or 'general-override' starts none.
C35_WindowOnlyAfterDirectTrigger ==
    [][\A ch \in Channels :
          StartsWindow(ch) => /\ last_sent'.channel_id = ch
                              /\ last_sent'.reason \notin {"general", "general-override"}]_vars

\* a reply is sent in the channel, by handle_message or by the batch loop
ReplyStep(ch) ==
    \/ \E p \in pending : p.event.channel_id = ch /\ CompleteReply(p)
    \/ batch_loop.channel_id = ch /\ BatchSend

\* the channel's conversation window is active now
WindowActive(ch) == ConvCheck(conv_until[ch], conv_budget[ch], now).active

\* C36: a reply sent while the channel's conversation window is active leaves
\* the window's expiry and its remaining budget as they were.
C36_ReplyKeepsActiveWindow ==
    [][\A ch \in Channels :
          (WindowActive(ch) /\ ReplyStep(ch))
              => /\ conv_until'[ch] = conv_until[ch]
                 /\ conv_budget'[ch] = conv_budget[ch]]_vars

\* a reply was sent inside an active window at a later time than the window's
\* start, and the window still ends where it did
C36_Witness ==
    /\ last_sent.kind = "immediate"
    /\ last_sent.in_window
    /\ WindowActive(last_sent.channel_id)
    /\ now > 0
    /\ conv_until[last_sent.channel_id] = CmWindowSeconds

\* ------------------------------------------------------------------
\* batching against the immediate reply in handle_message
\* ------------------------------------------------------------------

\* handle_message is called
HandleStep == Arrive \/ MentionsDeliver \/ DArrive \/ Redeliver

\* C37: while the channel's conversation window is active, handle_message
\* never hands an @-mention to the batcher and passes it to the policy; it hands
\* a non-mention event of an allow-listed channel, and any reply event, to the
\* batcher and starts no immediate reply for it; no call both batches an event
\* and starts an immediate reply.
C37_MentionImmediateOthersBatched ==
    [][HandleStep =>
          LET ev == handled'.event
              ch == ev.channel_id
          IN  /\ (handled'.conv_active /\ ev.is_mentioned)
                    => /\ handled'.outcome # "batched"
                       /\ handled'.policy_decision.reason # "none"
                       /\ buffers' = buffers
              /\ (handled'.conv_active /\ ~ev.is_mentioned
                     /\ (ChannelAllowed(cfg, ch) \/ ev.is_reply))
                    => /\ handled'.outcome = "batched"
                       /\ ev.message_id \in IdsOf(buffers'[ch])
                       /\ pending' = pending
              /\ handled'.outcome = "batched" => pending' = pending
              /\ handled'.outcome = "replying" => buffers' = buffers]_vars

\* a mention handled inside the window is being answered while a reply event
\* of a channel outside the allow-list waits in the batcher
C37_Witness ==
    /\ handled.conv_active
    /\ handled.event.is_mentioned
    /\ handled.outcome = "replying"
    /\ ~ChannelAllowed(cfg, handled.event.channel_id)
    /\ \E i \in 1..Len(buffers[handled.event.channel_id]) :
          buffers[handled.event.channel_id][i].is_reply

\* ------------------------------------------------------------------
\* the model loop against an OpenAI-compatible provider
\* ------------------------------------------------------------------

\* the calls of the event that went to provider p
AttemptsAt(p) == {i \in 1..Len(op.attempts) : op.attempts[i].provider = p}

\* C38: a provider that is an OpenAICompatClient gets at most one generation
\* attempt per event, with the first configured model, on the immediate path
\* and on the batch path.
C38_CompatTriedOnce ==
    op.kind = "fallback"
       => \A p \in op.compat :
             /\ Cardinality(AttemptsAt(p)) <= 1
             /\ \A i \in AttemptsAt(p) : op.attempts[i].model = op.models[1]

\* ------------------------------------------------------------------
\* _assemble_and_budget with a token estimator that raises
\* ------------------------------------------------------------------

\* what the guarded measurements fall back to when the estimator raises
UnknownTokens == 0 - 1
\* what current_tokens of the trimming loop returns when the estimator raises
HugeTokens == 1000000000

\* the measuring steps of _assemble_and_budget: tokens_before, current_tokens
\* of the loop, total_after_history, base_tokens, tokens_after
MeasureSteps == {"before", "loop", "after_history", "base", "after"}

\* the steps at which the estimator raises in one call: one step, or all
RaiseSets == {{st} : st \in MeasureSteps} \cup {MeasureSteps}

\* try: estimate_tokens_messages(messages) except Exception: fallback
EstimateOr(messages, raised, fallback) ==
    IF raised THEN fallback ELSE EstimateTokensMessages(messages)

RECURSIVE TrimHistoryOr(_, _, _, _, _, _)
\* the while loop of step 1 with the guarded current_tokens
TrimHistoryOr(trimmed, system_blocks, user_msg, prompt_budget, protect, raised) ==
    IF trimmed /= <<>>
       /\ EstimateOr(system_blocks \o trimmed \o <<user_msg>>, raised, HugeTokens)
             > prompt_budget
    THEN IF IsProtected(trimmed[1], protect)
         THEN IF Len(trimmed) > 1
              THEN TrimHistoryOr(<<trimmed[1]>> \o SubSeq(trimmed, 3, Len(trimmed)),
                                 system_blocks, user_msg, prompt_budget, protect, raised)
              ELSE trimmed
         ELSE TrimHistoryOr(Tail(trimmed), system_blocks, user_msg, prompt_budget,
                            protect, raised)
    ELSE trimmed

\* the allowance of step 2 with the guarded base_tokens
UserAllowanceOr(system_blocks, history, prompt_budget, truncate_user_min, raised) ==
    LET base_tokens == EstimateOr(system_blocks \o history, raised, 0)
        raw0 == prompt_budget - base_tokens
        remaining_raw == IF raw0 < 1 THEN 1 ELSE raw0
    IN  IF prompt_budget < truncate_user_min THEN remaining_raw
        ELSE IF remaining_raw < truncate_user_min THEN truncate_user_min
        ELSE remaining_raw

\* MessageRouter._assemble_and_budget when the estimator raises at the steps
\* of `raises`
AssembleAndBudgetOr(system_blocks, history, user_msg, prompt_budget, protect, truncate_user_min, raises) ==
    LET tokens_before == EstimateOr(system_blocks \o history \o <<user_msg>>,
                                    "before" \in raises, UnknownTokens)
        history1 == IF tokens_before > prompt_budget /\ history /= <<>>
                    THEN TrimHistoryOr(history, system_blocks, user_msg, prompt_budget,
                                       protect, "loop" \in raises)
                    ELSE history
        total_after_history ==
            EstimateOr(system_blocks \o history1 \o <<user_msg>>,
                       "after_history" \in raises, UnknownTokens)
        allow == UserAllowanceOr(system_blocks, history1, prompt_budget,
                                 truncate_user_min, "base" \in raises)
        user1 == IF total_after_history > prompt_budget
                 THEN [user_msg EXCEPT !.content = TruncateTextTokens(@, allow)]
                 ELSE user_msg
    IN  [history |-> history1, user_msg |-> user1,
         messages |-> system_blocks \o history1 \o <<user1>>,
         tokens_before |-> tokens_before,
         tokens_after |-> EstimateOr(system_blocks \o history1 \o <<user1>>,
                                     "after" \in raises, UnknownTokens)]

EInit ==
    /\ Constructed
    /\ \E sb \in SystemBlockLists, h \in Histories, u \in UserTurns,
          b \in PromptBudgets, pr \in Protects, rs \in RaiseSets :
          op = [kind |-> "input", system_blocks |-> sb, history |-> h, user_msg |-> u,
                prompt_budget |-> b, protect_last_assistant |-> pr, raises |-> rs,
                result |-> NoResult]

\* a call of _assemble_and_budget returns although the estimator raised
AssembleOr ==
    /\ op.kind = "input"
    /\ op' = [op EXCEPT
                 !.kind = "result",
                 !.result = AssembleAndBudgetOr(op.system_blocks, op.history, op.user_msg,
                                                op.prompt_budget,
                                                op.protect_last_assistant,
                                                TruncateUserMin, op.raises)]
    /\ UNCHANGED <<coreVars, loopVars, buffers, seen_sets>>

ENext == AssembleOr

EstimateSpec == EInit /\ [][ENext]_vars

\* what the call returns when the estimator works
Measured ==
    AssembleAndBudget(op.system_blocks, op.history, op.user_msg, op.prompt_budget,
                      op.protect_last_assistant, TruncateUserMin)

\* C39: when the token estimator raises at a measuring step,
\* _assemble_and_budget still returns, and it treats the prompt as over
\* budget: it keeps no more of the history and of the user turn than it keeps
\* when the estimator works.
C39_EstimateFailureTrimsConservatively ==
    op.kind = "result"
       => /\ Len(op.result.history) <= Len(Measured.history)
          /\ Len(op.result.user_msg.content) <= Len(Measured.user_msg.content)

\* ------------------------------------------------------------------
\* the random chance gate of should_reply
\* ------------------------------------------------------------------

\* a general-chat event of an allow-listed channel outside the override list
\* reached the chance gate
AtChanceGate ==
    /\ GeneralCase
    /\ Ev.channel_id \in cfg.allowed_general_channels
    /\ Ev.channel_id \notin cfg.response_chance_override_channels
    /\ CooldownPredicate

\* C40: an event that reaches the chance gate is allowed with reason 'general'
\* and style 'normal' exactly when its roll is below random_response_chance,
\* and is otherwise denied with reason 'chance-failed' and the roll; a chance
\* of 1.0 always allows and a chance of 0 never does.
C40_ChanceGateExactly ==
    AtChanceGate
       => /\ Dec.allow <=> Dec.roll < cfg.random_response_chance
          /\ Dec.allow => (Dec.reason = "general" /\ Dec.style = "normal")
          /\ ~Dec.allow => Dec.reason = "chance-failed"
          /\ cfg.random_response_chance = 100 => Dec.allow
          /\ cfg.random_response_chance = 0 => ~Dec.allow

\* the roll equal to the chance is denied
C40_Witness ==
    /\ AtChanceGate
    /\ cfg.random_response_chance = 50
    /\ Dec.roll = 50
    /\ ~Dec.allow
    /\ Dec.reason = "chance-failed"


====
